---------------------------- MODULE Spec2Model ----------------------------
(***************************************************************************)
(* Model of gregwebs/go-concurrent.                                        *)
(*                                                                         *)
(* Group (src/group.go): work units are admitted through an optional      *)
(* limiter channel, registered in a WaitGroup, run in their own goroutine, *)
(* record a failure in the error queue and in the firstError channel, and  *)
(* then release the limiter and the WaitGroup.  Wait and WaitOrError are   *)
(* calls made by other goroutines.  Every action is one atomic step of the *)
(* Go code: one channel operation, one mutex-protected queue operation,    *)
(* one WaitGroup operation, or one read or write of the unsynchronised     *)
(* field g.firstError.                                                     *)
(***************************************************************************)
EXTENDS Integers, Sequences, FiniteSets, TLC

\* Number of work units submitted to the group.
MaxUnits == 2
\* Number of Wait / WaitOrError calls that may overlap each other.
MaxRacers == 2
\* Number of Wait / WaitOrError calls made on the group.
MaxWaits == MaxRacers + 1
\* Largest limit given to SetLimit.
MaxLimit == 1
\* Largest number of errors in the error queue at which a completed unit is
\* still followed by a further one.
MaxQueued == 0
\* Capacity of the channel of an Unbounded and of every Receiver() output:
\* chanSize of unbounded_chan.go, scaled down from 100.
chanSize == 1
\* Number of Send calls made on the Unbounded.
MaxSends == 3

\* The largest number of input channels given to ChannelMerge.
MaxInputs == 2
\* The largest number of values sent on one input channel.
MaxValues == 2
\* The largest n given to GoN.
MaxN == 2

Units == 1 .. MaxUnits
\* The goroutines that call Send, Recv and Drain of one UnboundedChan.
Callers == {"c1", "c2", "c3"}
\* The input channels that can be given to ChannelMerge.
Inputs == 1 .. MaxInputs
\* The indices GoN can call fn with.
Indices == 0 .. MaxN - 1
\* The goroutines that use the Unbounded: one that calls Send, those
\* started by Receiver(), and those that call Recv or TryRecv.
Relays == {"relay", "relay2"}
Consumers == {"consumer", "consumer2"}
Goroutines == {"sender"} \cup Relays \cup Consumers
Waits == 1 .. MaxWaits

\* g.limiter == nil (no limit).
NoLimiter == -1
\* the arguments given to SetLimit.
Limits == NoLimiter .. MaxLimit

\* The nil error.
NilErr == <<0, "nil">>
\* What a work function does: return nil, return an error, panic.
Outcomes == {"nil", "err", "panic"}
\* The outcomes in which fn returns.
Returns == {"nil", "err"}

\* fn() of unit u: the error it returns (NilErr when it panics instead).
fnReturn(u, o) == IF o = "err" THEN <<u, "returned">> ELSE NilErr

\* recovered with the recover() left out: a panic yields no error.
recoveredNothing(u, o) == NilErr

\* recovered(fn) around the closure of Group.do, which itself always returns
\* nil: after a panic a non-nil error made from the recovered value (the
\* value itself when it is an error, "panic: <value>" when it is not), the
\* closure's nil otherwise.
recovered(u, o) == IF o = "panic" THEN <<u, "panic">> ELSE NilErr

\* The error Group.do hands to g.error for unit u: the one fn returned
\* (inside the closure) or the one recovered returned (after it).
unitError(u, o) ==
    IF fnReturn(u, o) # NilErr THEN fnReturn(u, o) ELSE recovered(u, o)

\* joins(errs...): the non-nil errors, in order.
joins(errs) == SelectSeq(errs, LAMBDA e : e # NilErr)

VARIABLES
    pc,          \* pc[u]: position of unit u (its Go/TryGo call, then its goroutine)
    outcome,     \* outcome[u]: what fn of unit u did ("none" until it ends)
    tok,         \* tok[u]: the Go/TryGo call of u sent a token to g.limiter
    limiterCap,  \* cap(g.limiter), NoLimiter when g.limiter == nil
    limiterLen,  \* len(g.limiter)
    fatal,       \* SetLimit panicked: the program has ended
    goRoutine,   \* g.goRoutine: "GoConcurrent" or "GoSerial"
    wg,          \* the counter of g.wg
    errChan,     \* g.errChan.sliceT
    firstError,  \* g.firstError: a channel id, 0 when nil
    chanBuf,     \* chanBuf[c]: the buffer (capacity 1) of channel c
    nChan,       \* number of channels made for g.firstError
    ctxDone,     \* the derived context is cancelled
    wkind,       \* wkind[w]: "none", "Wait" or "WaitOrError"
    wpc,         \* wpc[w]: position of call w
    wch,         \* wch[w]: the channel the select of call w receives from
    helper,      \* helper[w]: the goroutine of WaitOrError that waits on g.wg
    wres,        \* wres[w]: what call w returned (a sequence of errors)
    before,      \* before[w]: the units registered when call w began
    clean,       \* clean[w]: no unit had sent an error to g.errChan when call w began
    ended,       \* ended[w]: the units that had completed when call w began
    at,          \* at[p]: position of goroutine p in the code of Unbounded
    m,           \* ub.m: "free", or the goroutine that holds it
    buffer,      \* ub.buffer
    channel,     \* the items in ub.channel (capacity chanSize)
    receiver,    \* receiver[r]: the items in the channel Receiver() returned for r
    held,        \* held[p]: what p holds in a local or a register
    sent,        \* number of Send calls that have returned
    call,        \* call[c]: what consumer c called, "Recv" or "TryRecv"
    ret,         \* ret[c]: what the last call of c returned, <<value, received>>
    got,         \* got[p]: the values p has received, in order
    closed,      \* ub.channel and the Receiver() channels are closed
    overflow,    \* what CloseWithOverflow returned
    spilled,     \* the values that have been appended to ub.buffer
    \* GoN (src/unnamed/part_001)
    typed,       \* which GoRoutine type the call is made on: "func", "struct"
    launcher,    \* how gr starts work: "go", "call", "nil" (zero value)
    num,         \* the argument n
    does,        \* what fn(i) does for each index
    goN,         \* where the goroutine that called GoN is
    iter,        \* the loop variable i of GoN
    step,        \* where the work launched for each index is
    invoked,     \* how many times fn was called with each index
    slots,       \* errs of GoN
    counter,     \* the counter of GoN's WaitGroup
    jpos,        \* the position of joins in errs
    jcount,      \* n of joins
    newErrs,     \* newErrs of joins
    result,      \* what GoN returned: nil, or a slice of errors
    wrapWorkFn,  \* gr.wrapWorkFn of the struct-typed GoRoutine
    wrapGiven,   \* the argument of the SetWrapFn call made on gr, if any
    \* ChannelMerge (src/concurrent.go)
    cs,          \* the input channels: how many values were sent, closed or not
    output,      \* the output goroutine of each input: where it is, and its n
    out,         \* the merged channel (closed, and what was received from
                 \* it), wg, and where the closing goroutine is
    \* UnboundedChan (src/unbounded_chan.go) used by several goroutines
    ucm,         \* uc.m: "free", or the goroutine that holds it
    thr,         \* the call each goroutine makes: where it is, what it
                 \* loaded from uc.sliceT, what it returned
    taken        \* how many values were sent, and the values that Recv
                 \* and Drain calls returned, in the order returned

unitVars == <<pc, outcome, tok>>
gateVars == <<limiterCap, limiterLen, fatal>>
errVars == <<errChan, firstError, chanBuf, nChan>>
ctxVars == <<ctxDone>>
waitVars == <<wkind, wpc, wch, helper, wres, before, clean, ended>>
ubVars == <<at, m, buffer, channel, receiver, held, sent, call, ret, got,
            closed, overflow, spilled>>
gonVars == <<typed, launcher, num, does, goN, iter, step, invoked, slots,
             counter, jpos, jcount, newErrs, result, wrapWorkFn, wrapGiven>>
mergeVars == <<cs, output, out>>
ucVars == <<ucm, thr, taken>>
vars == <<unitVars, gateVars, goRoutine, wg, errVars, ctxVars, waitVars, ubVars, gonVars, mergeVars, ucVars>>

\* NewGroupContext: no limiter, no firstError channel, empty error queue.
Init ==
    /\ pc = [u \in Units |-> "idle"]
    /\ outcome = [u \in Units |-> "none"]
    /\ tok = [u \in Units |-> FALSE]
    /\ limiterCap = NoLimiter
    /\ limiterLen = 0
    /\ fatal = FALSE
    /\ goRoutine = "GoConcurrent"
    /\ wg = 0
    /\ errChan = <<>>
    /\ firstError = 0
    /\ chanBuf = <<>>
    /\ nChan = 0
    /\ ctxDone = FALSE
    /\ wkind = [w \in Waits |-> "none"]
    /\ wpc = [w \in Waits |-> "idle"]
    /\ wch = [w \in Waits |-> 0]
    /\ helper = [w \in Waits |-> "none"]
    /\ wres = [w \in Waits |-> <<>>]
    /\ before = [w \in Waits |-> {}]
    /\ clean = [w \in Waits |-> TRUE]
    /\ ended = [w \in Waits |-> {}]
    /\ at = [p \in Goroutines |-> IF p \in Relays THEN "none" ELSE "idle"]
    /\ m = "free"
    /\ buffer = <<>>
    /\ channel = <<>>
    /\ receiver = [r \in Relays |-> <<>>]
    /\ held = [p \in Goroutines |-> 0]
    /\ sent = 0
    /\ call = [c \in Consumers |-> "none"]
    /\ ret = [c \in Consumers |-> <<>>]
    /\ got = [p \in Relays \cup Consumers |-> <<>>]
    /\ closed = FALSE
    /\ overflow = <<>>
    /\ spilled = {}
    /\ typed = "none"
    /\ launcher = "none"
    /\ num = 0
    /\ does = [i \in Indices |-> "nil"]
    /\ goN = "none"
    /\ iter = 0
    /\ step = [i \in Indices |-> "none"]
    /\ invoked = [i \in Indices |-> 0]
    /\ slots = [i \in Indices |-> NilErr]
    /\ counter = 0
    /\ jpos = 0
    /\ jcount = 0
    /\ newErrs = <<>>
    /\ result = [nil |-> TRUE, errs |-> <<>>]
    /\ wrapWorkFn = "nil"
    /\ wrapGiven = "none"
    /\ cs = [c \in Inputs |-> [sent |-> 0, closed |-> FALSE]]
    /\ output = [c \in Inputs |-> [at |-> "none", n |-> <<>>]]
    /\ out = [made |-> FALSE, wg |-> 0, closed |-> FALSE, merged |-> <<>>]
    /\ ucm = "free"
    /\ thr = [t \in Callers |-> [at |-> "idle", op |-> "none", data |-> <<>>, ret |-> <<>>]]
    /\ taken = [sent |-> 0, got |-> <<>>]

----------------------------------------------------------------------------
\* Submission: Go, TryGo, do.

\* Units are submitted in the order of their numbers.
NextToSubmit(u) == pc[u] = "idle" /\ (IF u = 1 THEN TRUE ELSE pc[u - 1] # "idle")

\* Go with the send of the token left out.
GoWithoutToken(u) ==
    /\ ~fatal
    /\ NextToSubmit(u)
    /\ pc' = [pc EXCEPT ![u] = "admitted"]
    /\ UNCHANGED <<outcome, tok, gateVars, wg, errVars, ctxVars, waitVars, goRoutine, ubVars, gonVars, mergeVars, ucVars>>

\* Group.Go up to g.do: with a limiter, the blocking send of a token.
Go(u) ==
    /\ ~fatal
    /\ NextToSubmit(u)
    /\ IF limiterCap # NoLimiter
       THEN /\ limiterLen < limiterCap
            /\ limiterLen' = limiterLen + 1
            /\ tok' = [tok EXCEPT ![u] = TRUE]
       ELSE UNCHANGED <<limiterLen, tok>>
    /\ pc' = [pc EXCEPT ![u] = "admitted"]
    /\ UNCHANGED <<outcome, limiterCap, fatal, wg, errVars, ctxVars, waitVars, goRoutine, ubVars, gonVars, mergeVars, ucVars>>

\* TryGo with the default case of the select left out: the token is sent
\* whether or not the channel is full.
TryGoBarges(u) ==
    /\ ~fatal
    /\ NextToSubmit(u)
    /\ IF limiterCap # NoLimiter
       THEN /\ limiterLen' = limiterLen + 1
            /\ tok' = [tok EXCEPT ![u] = TRUE]
       ELSE UNCHANGED <<limiterLen, tok>>
    /\ pc' = [pc EXCEPT ![u] = "admitted"]
    /\ UNCHANGED <<outcome, limiterCap, fatal, wg, errVars, ctxVars, waitVars, goRoutine, ubVars, gonVars, mergeVars, ucVars>>

\* Group.TryGo up to g.do: with a limiter, the non-blocking send of a token;
\* returns false when the channel is full.
TryGo(u) ==
    /\ ~fatal
    /\ NextToSubmit(u)
    /\ IF limiterCap # NoLimiter
       THEN IF limiterLen < limiterCap
            THEN /\ limiterLen' = limiterLen + 1
                 /\ tok' = [tok EXCEPT ![u] = TRUE]
                 /\ pc' = [pc EXCEPT ![u] = "admitted"]
            ELSE /\ pc' = [pc EXCEPT ![u] = "rejected"]
                 /\ UNCHANGED <<limiterLen, tok>>
       ELSE /\ pc' = [pc EXCEPT ![u] = "admitted"]
            /\ UNCHANGED <<limiterLen, tok>>
    /\ UNCHANGED <<outcome, limiterCap, fatal, wg, errVars, ctxVars, waitVars, goRoutine, ubVars, gonVars, mergeVars, ucVars>>

\* Group.do: g.wg.Add(1) and g.goRoutine(work), where work is
\* func() { go func() { ... }() }.  GoConcurrent runs work in a goroutine and
\* GoSerial calls it, and work itself starts the goroutine that runs the
\* unit: under either strategy g.do returns, and with it Go or TryGo, while
\* the unit runs in a goroutine of its own.
Do(u) ==
    /\ ~fatal
    /\ pc[u] = "admitted"
    /\ wg' = wg + 1
    /\ pc' = [pc EXCEPT ![u] = "running"]
    /\ UNCHANGED <<outcome, tok, gateVars, errVars, ctxVars, waitVars, goRoutine, ubVars, gonVars, mergeVars, ucVars>>

----------------------------------------------------------------------------
\* The goroutine of a unit.

\* The goroutine of Group.do with the calls of g.error left out: every
\* outcome goes on to g.done.
RunAsUnrecorded(u, o) ==
    /\ ~fatal
    /\ pc[u] = "running"
    /\ outcome' = [outcome EXCEPT ![u] = o]
    /\ pc' = [pc EXCEPT ![u] = "release"]
    /\ UNCHANGED <<tok, gateVars, wg, errVars, ctxVars, waitVars, goRoutine, ubVars, gonVars, mergeVars, ucVars>>

\* fn ends with outcome o; a failure goes on to g.error, a success to g.done.
RunAs(u, o) ==
    /\ ~fatal
    /\ pc[u] = "running"
    /\ outcome' = [outcome EXCEPT ![u] = o]
    /\ pc' = [pc EXCEPT ![u] =
                 IF unitError(u, o) # NilErr THEN "send" ELSE "release"]
    /\ UNCHANGED <<tok, gateVars, wg, errVars, ctxVars, waitVars, goRoutine, ubVars, gonVars, mergeVars, ucVars>>

\* fn returns or panics.
Run(u) == \E o \in Outcomes : RunAs(u, o)

\* fn returns.
RunReturn(u) == \E o \in Returns : RunAs(u, o)

\* Group.error: g.errChan.Send(err), then the read of g.firstError == nil.
ErrorSend(u) ==
    /\ ~fatal
    /\ pc[u] = "send"
    /\ errChan' = Append(errChan, unitError(u, outcome[u]))
    /\ pc' = [pc EXCEPT ![u] = "check"]
    /\ UNCHANGED <<outcome, tok, gateVars, wg, firstError, chanBuf, nChan, ctxVars, waitVars, goRoutine, ubVars, gonVars, mergeVars, ucVars>>

\* Group.error: the read of g.firstError == nil.
ErrorCheck(u) ==
    /\ ~fatal
    /\ pc[u] = "check"
    /\ pc' = [pc EXCEPT ![u] = IF firstError = 0 THEN "make" ELSE "trysend"]
    /\ UNCHANGED <<outcome, tok, gateVars, wg, errVars, ctxVars, waitVars, goRoutine, ubVars, gonVars, mergeVars, ucVars>>

\* g.firstError = make(chan error, 1)
MakeFirstError ==
    /\ nChan' = nChan + 1
    /\ chanBuf' = Append(chanBuf, <<>>)
    /\ firstError' = nChan + 1

\* Group.error: the write of a new channel to g.firstError.
ErrorMake(u) ==
    /\ ~fatal
    /\ pc[u] = "make"
    /\ MakeFirstError
    /\ pc' = [pc EXCEPT ![u] = "trysend"]
    /\ UNCHANGED <<outcome, tok, gateVars, wg, errChan, ctxVars, waitVars, goRoutine, ubVars, gonVars, mergeVars, ucVars>>

\* TrySend(c, e): the buffer of c after a non-blocking send of e.
TrySend(c, e) ==
    IF Len(chanBuf[c]) < 1
    THEN [chanBuf EXCEPT ![c] = Append(@, e)]
    ELSE chanBuf

\* Group.error: TrySend(g.firstError, err); the deferred g.done comes next.
ErrorTrySend(u) ==
    /\ ~fatal
    /\ pc[u] = "trysend"
    /\ chanBuf' = TrySend(firstError, unitError(u, outcome[u]))
    /\ pc' = [pc EXCEPT ![u] = "release"]
    /\ UNCHANGED <<outcome, tok, gateVars, wg, errChan, firstError, nChan, ctxVars, waitVars, goRoutine, ubVars, gonVars, mergeVars, ucVars>>

\* Group.done with the receive from g.limiter left out.
DoneKeepsToken(u) ==
    /\ ~fatal
    /\ pc[u] = "release"
    /\ pc' = [pc EXCEPT ![u] = "wgdone"]
    /\ UNCHANGED <<outcome, tok, gateVars, wg, errVars, ctxVars, waitVars, goRoutine, ubVars, gonVars, mergeVars, ucVars>>

\* Group.done: with a limiter, the blocking receive of a token.
DoneRelease(u) ==
    /\ ~fatal
    /\ pc[u] = "release"
    /\ IF limiterCap # NoLimiter
       THEN /\ limiterLen > 0
            /\ limiterLen' = limiterLen - 1
       ELSE UNCHANGED limiterLen
    /\ pc' = [pc EXCEPT ![u] = "wgdone"]
    /\ UNCHANGED <<outcome, tok, limiterCap, fatal, wg, errVars, ctxVars, waitVars, goRoutine, ubVars, gonVars, mergeVars, ucVars>>

\* Group.done with g.wg.Done() left out.
DoneWgSkipped(u) ==
    /\ ~fatal
    /\ pc[u] = "wgdone"
    /\ pc' = [pc EXCEPT ![u] = "finished"]
    /\ UNCHANGED <<outcome, tok, gateVars, wg, errVars, ctxVars, waitVars, goRoutine, ubVars, gonVars, mergeVars, ucVars>>

\* Group.done: g.wg.Done().
DoneWg(u) ==
    /\ ~fatal
    /\ pc[u] = "wgdone"
    /\ wg' = wg - 1
    /\ pc' = [pc EXCEPT ![u] = "finished"]
    /\ UNCHANGED <<outcome, tok, gateVars, errVars, ctxVars, waitVars, goRoutine, ubVars, gonVars, mergeVars, ucVars>>

----------------------------------------------------------------------------
\* Group.SetLimit(n).
SetLimit(n) ==
    /\ ~fatal
    /\ IF n < 0
       THEN /\ limiterCap' = NoLimiter
            /\ limiterLen' = 0
            /\ UNCHANGED fatal
       ELSE IF limiterCap # NoLimiter /\ limiterLen # 0
            THEN /\ fatal' = TRUE
                 /\ UNCHANGED <<limiterCap, limiterLen>>
            ELSE /\ limiterCap' = n
                 /\ limiterLen' = 0
                 /\ UNCHANGED fatal
    /\ UNCHANGED <<unitVars, wg, errVars, ctxVars, waitVars, goRoutine, ubVars, gonVars, mergeVars, ucVars>>

\* The group takes submissions for as long as it lives: once unit u has
\* completed, and no pending call counts it among the units registered before
\* it, the caller may submit a further unit, which is given the number u.
Resubmit(u) ==
    /\ ~fatal
    /\ pc[u] = "finished"
    /\ Len(errChan) <= MaxQueued
    /\ \A w \in Waits : wpc[w] \in {"idle", "returned"} \/ u \notin before[w]
    /\ pc' = [pc EXCEPT ![u] = "idle"]
    /\ outcome' = [outcome EXCEPT ![u] = "none"]
    /\ tok' = [tok EXCEPT ![u] = FALSE]
    /\ UNCHANGED <<gateVars, wg, errVars, ctxVars, waitVars, goRoutine, ubVars, gonVars, mergeVars, ucVars>>

\* The launch strategies.
GoRoutines == {"GoConcurrent", "GoSerial"}

\* Group.SetGoRoutine(gr).
SetGoRoutine(gr) ==
    /\ ~fatal
    /\ goRoutine' = gr
    /\ UNCHANGED <<unitVars, gateVars, wg, errVars, ctxVars, waitVars, ubVars, gonVars, mergeVars, ucVars>>

----------------------------------------------------------------------------
\* Wait and WaitOrError calls.

\* The units g.do has registered in g.wg.
Registered == {u \in Units : pc[u] \notin {"idle", "admitted", "rejected"}}
\* The units that have called g.wg.Done.
Finished == {u \in Units : pc[u] = "finished"}
\* The units whose error g.error has sent to g.errChan.
Sent == {u \in Units : outcome[u] \in {"err", "panic"} /\ pc[u] # "send"}

\* A deferred g.cancel that does nothing.
CancelNothing(cause) == UNCHANGED ctxDone

\* g.cancel(cause) of context.WithCancelCause: the derived context is done
\* from the first call on (the cause is not modelled).
Cancel(cause) == ctxDone' = TRUE

\* The deferred g.cancel and the return of call w with result res.
Return(w, res) ==
    /\ wres' = [wres EXCEPT ![w] = res]
    /\ wpc' = [wpc EXCEPT ![w] = "returned"]
    /\ wch' = [wch EXCEPT ![w] = 0]
    /\ Cancel(res)

\* Group.Wait begins: it goes to g.wg.Wait().
WaitBegin(w) ==
    /\ ~fatal
    /\ wpc[w] = "idle"
    /\ wkind' = [wkind EXCEPT ![w] = "Wait"]
    /\ wpc' = [wpc EXCEPT ![w] = "wgwait"]
    /\ before' = [before EXCEPT ![w] = Registered]
    /\ clean' = [clean EXCEPT ![w] = (Sent = {})]
    /\ ended' = [ended EXCEPT ![w] = Finished]
    /\ UNCHANGED <<unitVars, gateVars, wg, errVars, ctxVars, wch, helper, wres, goRoutine, ubVars, gonVars, mergeVars, ucVars>>

\* Wait with g.wg.Wait() left out.
WaitWgNoWait(w) ==
    /\ ~fatal
    /\ wkind[w] = "Wait"
    /\ wpc[w] = "wgwait"
    /\ wpc' = [wpc EXCEPT ![w] = "drain"]
    /\ UNCHANGED <<unitVars, gateVars, wg, errVars, ctxVars, wkind, wch, helper, wres, before, clean, ended, goRoutine, ubVars, gonVars, mergeVars, ucVars>>

\* Group.Wait: g.wg.Wait() returns when the counter is zero.
WaitWg(w) ==
    /\ ~fatal
    /\ wkind[w] = "Wait"
    /\ wpc[w] = "wgwait"
    /\ wg = 0
    /\ wpc' = [wpc EXCEPT ![w] = "drain"]
    /\ UNCHANGED <<unitVars, gateVars, wg, errVars, ctxVars, wkind, wch, helper, wres, before, clean, ended, goRoutine, ubVars, gonVars, mergeVars, ucVars>>

\* Wait with a Drain that leaves the errors in the queue.
WaitDrainKeeps(w) ==
    /\ ~fatal
    /\ wkind[w] = "Wait"
    /\ wpc[w] = "drain"
    /\ Return(w, joins(errChan))
    /\ UNCHANGED <<unitVars, gateVars, wg, errVars, wkind, helper, before, clean, ended, goRoutine, ubVars, gonVars, mergeVars, ucVars>>

\* Group.Wait: errs = g.errChan.Drain(), g.cancel(errors.Join(errs...)) and
\* the return of joins(errs...).
WaitDrain(w) ==
    /\ ~fatal
    /\ wkind[w] = "Wait"
    /\ wpc[w] = "drain"
    /\ errChan' = <<>>
    /\ Return(w, joins(errChan))
    /\ UNCHANGED <<unitVars, gateVars, wg, firstError, chanBuf, nChan, wkind, helper, before, clean, ended, goRoutine, ubVars, gonVars, mergeVars, ucVars>>

\* Group.WaitOrError begins: the read of g.firstError == nil.
WaitOrErrorBegin(w) ==
    /\ ~fatal
    /\ wpc[w] = "idle"
    /\ wkind' = [wkind EXCEPT ![w] = "WaitOrError"]
    /\ wpc' = [wpc EXCEPT ![w] = IF firstError = 0 THEN "make" ELSE "recv"]
    /\ before' = [before EXCEPT ![w] = Registered]
    /\ clean' = [clean EXCEPT ![w] = (Sent = {})]
    /\ ended' = [ended EXCEPT ![w] = Finished]
    /\ UNCHANGED <<unitVars, gateVars, wg, errVars, ctxVars, wch, helper, wres, goRoutine, ubVars, gonVars, mergeVars, ucVars>>

\* Group.WaitOrError: the write of a new channel to g.firstError.
WaitOrErrorMake(w) ==
    /\ ~fatal
    /\ wpc[w] = "make"
    /\ MakeFirstError
    /\ wpc' = [wpc EXCEPT ![w] = "recv"]
    /\ UNCHANGED <<unitVars, gateVars, wg, errChan, ctxVars, wkind, wch, helper, wres, before, clean, ended, goRoutine, ubVars, gonVars, mergeVars, ucVars>>

\* Group.WaitOrError: g.errChan.Recv(); an error received is returned, and
\* otherwise the goroutine that waits on g.wg is started.
WaitOrErrorRecv(w) ==
    /\ ~fatal
    /\ wpc[w] = "recv"
    /\ IF Len(errChan) > 0
       THEN /\ errChan' = Tail(errChan)
            /\ Return(w, <<Head(errChan)>>)
            /\ UNCHANGED helper
       ELSE /\ wpc' = [wpc EXCEPT ![w] = "enter"]
            /\ helper' = [helper EXCEPT ![w] = "waiting"]
            /\ UNCHANGED <<errChan, wres, wch, ctxVars>>
    /\ UNCHANGED <<unitVars, gateVars, wg, firstError, chanBuf, nChan, wkind, before, clean, ended, goRoutine, ubVars, gonVars, mergeVars, ucVars>>

\* The goroutine of WaitOrError: g.wg.Wait() returns, it goes to send on completed.
HelperWg(w) ==
    /\ ~fatal
    /\ helper[w] = "waiting"
    /\ wg = 0
    /\ helper' = [helper EXCEPT ![w] = "sending"]
    /\ UNCHANGED <<unitVars, gateVars, wg, errVars, ctxVars, wkind, wpc, wch, wres, before, clean, ended, goRoutine, ubVars, gonVars, mergeVars, ucVars>>

\* Group.WaitOrError: the select statement evaluates g.firstError.
WaitOrErrorEnter(w) ==
    /\ ~fatal
    /\ wpc[w] = "enter"
    /\ wch' = [wch EXCEPT ![w] = firstError]
    /\ wpc' = [wpc EXCEPT ![w] = "select"]
    /\ UNCHANGED <<unitVars, gateVars, wg, errVars, ctxVars, wkind, helper, wres, before, clean, ended, goRoutine, ubVars, gonVars, mergeVars, ucVars>>

\* Group.WaitOrError: case err := <-g.firstError.
WaitOrErrorFirst(w) ==
    /\ ~fatal
    /\ wpc[w] = "select"
    /\ Len(chanBuf[wch[w]]) > 0
    /\ chanBuf' = [chanBuf EXCEPT ![wch[w]] = Tail(@)]
    /\ Return(w, <<Head(chanBuf[wch[w]])>>)
    /\ UNCHANGED <<unitVars, gateVars, wg, errChan, firstError, nChan, wkind, helper, before, clean, ended, goRoutine, ubVars, gonVars, mergeVars, ucVars>>

\* Group.WaitOrError: case <-completed.
WaitOrErrorCompleted(w) ==
    /\ ~fatal
    /\ wpc[w] = "select"
    /\ helper[w] = "sending"
    /\ helper' = [helper EXCEPT ![w] = "done"]
    /\ wpc' = [wpc EXCEPT ![w] = "tryrecv"]
    /\ UNCHANGED <<unitVars, gateVars, wg, errVars, ctxVars, wkind, wch, wres, before, clean, ended, goRoutine, ubVars, gonVars, mergeVars, ucVars>>

\* Group.WaitOrError: TryRecv(g.firstError) after completed.
WaitOrErrorTryRecv(w) ==
    /\ ~fatal
    /\ wpc[w] = "tryrecv"
    /\ IF Len(chanBuf[firstError]) > 0
       THEN /\ chanBuf' = [chanBuf EXCEPT ![firstError] = Tail(@)]
            /\ Return(w, <<Head(chanBuf[firstError])>>)
       ELSE /\ wpc' = [wpc EXCEPT ![w] = "drain"]
            /\ UNCHANGED <<chanBuf, wres, wch, ctxVars>>
    /\ UNCHANGED <<unitVars, gateVars, wg, errChan, firstError, nChan, wkind, helper, before, clean, ended, goRoutine, ubVars, gonVars, mergeVars, ucVars>>

\* Group.WaitOrError: errs := g.errChan.Drain(); errs[0] is returned when
\* there is one, nil otherwise.
WaitOrErrorDrain(w) ==
    /\ ~fatal
    /\ wkind[w] = "WaitOrError"
    /\ wpc[w] = "drain"
    /\ errChan' = <<>>
    /\ Return(w, IF Len(errChan) > 0 THEN <<errChan[1]>> ELSE <<>>)
    /\ UNCHANGED <<unitVars, gateVars, wg, firstError, chanBuf, nChan, wkind, helper, before, clean, ended, goRoutine, ubVars, gonVars, mergeVars, ucVars>>

----------------------------------------------------------------------------
\* The steps of a unit after its work function has ended.
UnitEnd(u) ==
    \/ ErrorSend(u)
    \/ ErrorCheck(u)
    \/ ErrorMake(u)
    \/ ErrorTrySend(u)
    \/ DoneRelease(u)
    \/ DoneWg(u)

\* The steps of a Wait call after it has begun.
WaitRest(w) ==
    \/ WaitWg(w)
    \/ WaitDrain(w)

\* The steps of a WaitOrError call after it has begun.
WaitOrErrorRest(w) ==
    \/ WaitOrErrorMake(w)
    \/ WaitOrErrorRecv(w)
    \/ HelperWg(w)
    \/ WaitOrErrorEnter(w)
    \/ WaitOrErrorFirst(w)
    \/ WaitOrErrorCompleted(w)
    \/ WaitOrErrorTryRecv(w)
    \/ WaitOrErrorDrain(w)

\* SetLimit called while no unit has been submitted.
SetLimitFirst(n) ==
    /\ \A u \in Units : pc[u] = "idle"
    /\ SetLimit(n)

\* No unit is in flight, and a Wait call has seen every unit that ran: the
\* group is new, or a Wait call has returned and no unit was admitted since.
Quiescent ==
    \A u \in Units :
        \/ pc[u] \in {"idle", "rejected"}
        \/ /\ pc[u] = "finished"
           /\ \E w \in Waits :
                 wkind[w] = "Wait" /\ wpc[w] = "returned" /\ u \in before[w]

\* SetLimit called on a quiescent group.
SetLimitQuiescent(n) ==
    /\ Quiescent
    /\ SetLimit(n)

\* SetGoRoutine called while no unit has been submitted.
SetGoRoutineFirst(gr) ==
    /\ \A u \in Units : pc[u] = "idle"
    /\ SetGoRoutine(gr)

\* Calls begin in the order of their numbers.
InOrder(w) == IF w = 1 THEN TRUE ELSE wpc[w - 1] # "idle"

\* Call w begins after every earlier call has returned.
InSequence(w) == IF w = 1 THEN TRUE ELSE wpc[w - 1] = "returned"

\* Every submitted unit has finished and every call that began has returned.
Quiet ==
    /\ \A u \in Units : pc[u] \in {"idle", "finished", "rejected"}
    /\ \A w \in Waits : wpc[w] \in {"idle", "returned"}

\* The calls that may overlap, and the Wait call made when all is quiet.
Racers == 1 .. MaxRacers
FinalWait == MaxRacers + 1

\* Submissions, units and SetLimit calls at any moment; no Wait call.
NextGate ==
    \/ \E u \in Units : Go(u) \/ TryGo(u) \/ Do(u) \/ RunReturn(u) \/ UnitEnd(u)
    \/ \E n \in Limits : SetLimit(n)

\* A limit set before the first submission; units and one Wait call at any
\* moment.
NextWait ==
    \/ \E u \in Units : Go(u) \/ TryGo(u) \/ Do(u) \/ Run(u) \/ UnitEnd(u)
    \/ \E n \in Limits : SetLimitFirst(n)
    \/ WaitBegin(1) \/ WaitRest(1)

\* No limit; units at any moment; Wait and WaitOrError calls one after the other.
NextSeq ==
    \/ \E u \in Units : Go(u) \/ Do(u) \/ Run(u) \/ UnitEnd(u)
    \/ \E w \in Waits : InSequence(w) /\ (WaitBegin(w) \/ WaitOrErrorBegin(w))
    \/ \E w \in Waits : WaitRest(w) \/ WaitOrErrorRest(w)

\* No limit; units and overlapping WaitOrError calls at any moment, and a
\* Wait call when all is quiet.
NextWaitOrError ==
    \/ \E u \in Units : Go(u) \/ Do(u) \/ RunReturn(u) \/ UnitEnd(u)
    \/ \E w \in Racers : (InOrder(w) /\ WaitOrErrorBegin(w)) \/ WaitOrErrorRest(w)
    \/ (Quiet /\ WaitBegin(FinalWait)) \/ WaitRest(FinalWait)

\* No limit; units and overlapping WaitOrError calls at any moment.
NextFirstError ==
    \/ \E u \in Units : Go(u) \/ Do(u) \/ RunReturn(u) \/ UnitEnd(u)
    \/ \E w \in Racers : (InOrder(w) /\ WaitOrErrorBegin(w)) \/ WaitOrErrorRest(w)

\* No limit; units at any moment and one call, Wait or WaitOrError, at any
\* moment.
NextOneCall ==
    \/ \E u \in Units : Go(u) \/ Do(u) \/ RunReturn(u) \/ UnitEnd(u)
    \/ WaitBegin(1) \/ WaitOrErrorBegin(1)
    \/ WaitRest(1) \/ WaitOrErrorRest(1)

\* The first Wait call, made on the empty group, has returned.
FirstWaitReturned == wkind[1] = "Wait" /\ wpc[1] = "returned"

\* No limit and only Wait calls: a first Wait on the empty group, then units
\* and further Wait calls at any moment, the calls overlapping or not.
NextBatches ==
    \/ \E u \in Units : (FirstWaitReturned /\ Go(u)) \/ Do(u) \/ RunReturn(u) \/ UnitEnd(u)
    \/ \E w \in Waits : (InOrder(w) /\ WaitBegin(w)) \/ WaitRest(w)

\* A launch strategy and a limit set before the first submission; units at
\* any moment.
NextSerial ==
    \/ \E gr \in GoRoutines : SetGoRoutineFirst(gr)
    \/ \E n \in Limits : SetLimitFirst(n)
    \/ \E u \in Units : Go(u) \/ Do(u) \/ RunReturn(u) \/ UnitEnd(u)

\* A limit set before the first submission; every unit is submitted with Go,
\* one call after the other.
NextBlocking ==
    \/ \E n \in Limits : SetLimitFirst(n)
    \/ \E u \in Units : Go(u) \/ Do(u) \/ Run(u) \/ UnitEnd(u)

\* The caller makes its Go calls, the scheduler runs every goroutine that can
\* take a step, and every work function returns or panics.
FairBlocking ==
    \A u \in Units :
        WF_vars(Go(u)) /\ WF_vars(Do(u)) /\ WF_vars(Run(u)) /\ WF_vars(UnitEnd(u))

\* A stream of submissions that need not end before the Wait call returns,
\* under a limit set while no unit is submitted, and one Wait call at any
\* moment.
NextForever ==
    \/ \E n \in Limits : SetLimitFirst(n)
    \/ \E u \in Units : Go(u) \/ Do(u) \/ Run(u) \/ UnitEnd(u)
    \/ \E u \in Units : wpc[1] # "returned" /\ Resubmit(u)
    \/ WaitBegin(1) \/ WaitRest(1)

\* The scheduler runs every goroutine that can take a step and every work
\* function returns or panics; g.wg.Wait() returns if the counter is zero at
\* some moment, however short; nobody need submit a unit.
FairForever ==
    /\ \A u \in Units : WF_vars(Do(u)) /\ WF_vars(Run(u)) /\ WF_vars(UnitEnd(u))
    /\ SF_vars(WaitWg(1)) /\ WF_vars(WaitDrain(1))

\* Limits set on the quiescent group, before the first submission or between
\* batches; units submitted with TryGo at any moment; Wait calls one after
\* the other.
NextZero ==
    \/ \E n \in Limits : SetLimitQuiescent(n)
    \/ \E u \in Units : TryGo(u) \/ Do(u) \/ RunReturn(u) \/ UnitEnd(u)
    \/ \E w \in Racers : (InSequence(w) /\ WaitBegin(w)) \/ WaitRest(w)

\* The Go scheduler runs every goroutine that can take a step: a unit once
\* its work function has ended, a WaitOrError call once it has begun.  A
\* work function need not end, and nobody need submit a unit or make a call.
FairFirstError ==
    /\ \A u \in Units : WF_vars(UnitEnd(u))
    /\ \A w \in Racers : WF_vars(WaitOrErrorRest(w))

SpecGate == Init /\ [][NextGate]_vars
SpecWait == Init /\ [][NextWait]_vars
SpecSeq == Init /\ [][NextSeq]_vars
SpecWaitOrError == Init /\ [][NextWaitOrError]_vars
SpecOneCall == Init /\ [][NextOneCall]_vars
SpecBatches == Init /\ [][NextBatches]_vars
SpecSerial == Init /\ [][NextSerial]_vars
SpecBlocking == Init /\ [][NextBlocking]_vars /\ FairBlocking
SpecForever == Init /\ [][NextForever]_vars /\ FairForever
SpecZero == Init /\ [][NextZero]_vars
SpecFirstError == Init /\ [][NextFirstError]_vars /\ FairFirstError

----------------------------------------------------------------------------
\* channel.Unbounded: a channel of capacity chanSize with an overflow buffer.

groupVars == <<unitVars, gateVars, goRoutine, wg, errVars, ctxVars, waitVars>>
recvVars == <<call, ret, got>>
closeVars == <<closed, overflow>>

\* An unrecovered panic in any goroutine ends the program.
Crashed == \E p \in Goroutines : at[p] = "panicked"

\* Where goroutine p goes on when transferBufferToChannel returns ok: Send
\* to the second operand of its && or to its append, the goroutine of
\* Receiver() to its range loop, Recv and TryRecv to the deferred Unlock of
\* transferBufferToChannelLocked.
ReturnTo(p, ok) ==
    IF p = "sender" THEN (IF ok THEN "s24" ELSE "s27")
    ELSE IF p \in Relays THEN "range"
    ELSE "unlock"

\* A panic unwinds p: the deferred Unlock of Send and of
\* transferBufferToChannelLocked runs, the goroutine of Receiver() holds
\* no lock.
Panic(p) ==
    /\ at' = [at EXCEPT ![p] = "panicked"]
    /\ m' = IF m = p THEN "free" ELSE m

\* The caller of Send starts a call; its item is numbered sent + 1.
SendCall ==
    /\ ~Crashed
    /\ at["sender"] = "idle"
    /\ sent < MaxSends
    /\ at' = [at EXCEPT !["sender"] = "s22"]
    /\ UNCHANGED <<m, buffer, channel, receiver, held, sent, spilled>>
    /\ UNCHANGED <<recvVars, closeVars, groupVars, gonVars, mergeVars, ucVars>>

\* Send, ub.m.Lock().
SendLock ==
    /\ ~Crashed
    /\ at["sender"] = "s22"
    /\ m = "free"
    /\ m' = "sender"
    /\ at' = [at EXCEPT !["sender"] = "t101"]
    /\ UNCHANGED <<buffer, channel, receiver, held, sent, spilled>>
    /\ UNCHANGED <<recvVars, closeVars, groupVars, gonVars, mergeVars, ucVars>>

\* transferBufferToChannel skips its work for every caller.
TransferCheckSkips(p) ==
    /\ ~Crashed
    /\ at[p] = "t101"
    /\ at' = [at EXCEPT ![p] = ReturnTo(p, TRUE)]
    /\ UNCHANGED <<m, buffer, channel, receiver, held, sent, spilled>>
    /\ UNCHANGED <<recvVars, closeVars, groupVars, gonVars, mergeVars, ucVars>>

\* transferBufferToChannel, if len(ub.buffer) == 0 { return true }.  The
\* goroutine of Receiver() runs this function without ub.m, so that what p
\* loads here may be out of date at its next step; held[p] is the element
\* at the head of the slice it loaded.
TransferCheck(p) ==
    /\ ~Crashed
    /\ at[p] = "t101"
    /\ IF buffer = <<>>
       THEN /\ at' = [at EXCEPT ![p] = ReturnTo(p, TRUE)]
            /\ UNCHANGED held
       ELSE /\ at' = [at EXCEPT ![p] = "t105"]
            /\ held' = [held EXCEPT ![p] = Head(buffer)]
    /\ UNCHANGED <<m, buffer, channel, receiver, sent, spilled>>
    /\ UNCHANGED <<recvVars, closeVars, groupVars, gonVars, mergeVars, ucVars>>

\* transferBufferToChannel, concurrent.TrySend(ub.channel, ub.buffer[0]).
\* ub.buffer[0] is the element of the slice loaded by the previous step or
\* of the slice as it is now; when another goroutine has emptied ub.buffer
\* since, loading it again panics (index out of range).  A send on a
\* closed channel panics.
TransferSend(p) ==
    /\ ~Crashed
    /\ at[p] = "t105"
    /\ \/ /\ buffer = <<>> \/ closed
          /\ Panic(p)
          /\ UNCHANGED channel
       \/ /\ ~closed
          /\ \E obj \in {held[p]} \cup (IF buffer = <<>> THEN {} ELSE {Head(buffer)}) :
                /\ m' = m
                /\ IF Len(channel) < chanSize
                   THEN /\ channel' = Append(channel, obj)
                        /\ at' = [at EXCEPT ![p] = "t106"]
                   ELSE /\ at' = [at EXCEPT ![p] = ReturnTo(p, FALSE)]
                        /\ UNCHANGED channel
    /\ UNCHANGED <<buffer, receiver, held, sent, spilled>>
    /\ UNCHANGED <<recvVars, closeVars, groupVars, gonVars, mergeVars, ucVars>>

\* transferBufferToChannel, ub.buffer = ub.buffer[1:] and the test of its
\* length.  Slicing a buffer that another goroutine has emptied since the
\* TrySend panics (slice bounds out of range).
TransferSlice(p) ==
    /\ ~Crashed
    /\ at[p] = "t106"
    /\ IF buffer = <<>>
       THEN /\ Panic(p)
            /\ UNCHANGED <<buffer, held>>
       ELSE /\ buffer' = Tail(buffer)
            /\ m' = m
            /\ IF Tail(buffer) = <<>>
               THEN /\ at' = [at EXCEPT ![p] = ReturnTo(p, TRUE)]
                    /\ UNCHANGED held
               ELSE /\ at' = [at EXCEPT ![p] = "t105"]
                    /\ held' = [held EXCEPT ![p] = Head(Tail(buffer))]
    /\ UNCHANGED <<channel, receiver, sent, spilled>>
    /\ UNCHANGED <<recvVars, closeVars, groupVars, gonVars, mergeVars, ucVars>>

\* Send with a TrySend that finds a closed channel full.
SendTryOnClosed ==
    /\ ~Crashed
    /\ at["sender"] = "s24"
    /\ IF Len(channel) < chanSize /\ ~closed
       THEN /\ channel' = Append(channel, sent + 1)
            /\ at' = [at EXCEPT !["sender"] = "idle"]
            /\ m' = "free"
            /\ sent' = sent + 1
       ELSE /\ at' = [at EXCEPT !["sender"] = "s27"]
            /\ UNCHANGED <<channel, m, sent>>
    /\ UNCHANGED <<buffer, receiver, held, spilled>>
    /\ UNCHANGED <<recvVars, closeVars, groupVars, gonVars, mergeVars, ucVars>>

\* Send, concurrent.TrySend(ub.channel, x), reached when
\* transferBufferToChannel returned true; Send returns when x is sent.  A
\* send on a closed channel panics.
SendTry ==
    /\ ~Crashed
    /\ at["sender"] = "s24"
    /\ IF closed
       THEN /\ Panic("sender")
            /\ UNCHANGED <<channel, sent>>
       ELSE IF Len(channel) < chanSize
       THEN /\ channel' = Append(channel, sent + 1)
            /\ at' = [at EXCEPT !["sender"] = "idle"]
            /\ m' = "free"
            /\ sent' = sent + 1
       ELSE /\ at' = [at EXCEPT !["sender"] = "s27"]
            /\ UNCHANGED <<channel, m, sent>>
    /\ UNCHANGED <<buffer, receiver, held, spilled>>
    /\ UNCHANGED <<recvVars, closeVars, groupVars, gonVars, mergeVars, ucVars>>

\* Send, ub.buffer = append(ub.buffer, x), and its return.
SendAppend ==
    /\ ~Crashed
    /\ at["sender"] = "s27"
    /\ buffer' = Append(buffer, sent + 1)
    /\ spilled' = spilled \cup {sent + 1}
    /\ at' = [at EXCEPT !["sender"] = "idle"]
    /\ m' = "free"
    /\ sent' = sent + 1
    /\ UNCHANGED <<channel, receiver, held>>
    /\ UNCHANGED <<recvVars, closeVars, groupVars, gonVars, mergeVars, ucVars>>

\* Receiver(): the new channel is registered under ub.m and its goroutine
\* r is started.
Receiver(r) ==
    /\ ~Crashed
    /\ at[r] = "none"
    /\ m = "free"
    /\ at' = [at EXCEPT ![r] = "range"]
    /\ UNCHANGED <<m, buffer, channel, receiver, held, sent, spilled>>
    /\ UNCHANGED <<recvVars, closeVars, groupVars, gonVars, mergeVars, ucVars>>

\* The goroutine of Receiver(), for x := range ub.channel: the loop ends
\* when ub.channel is closed and empty.
RelayRange(r) ==
    /\ ~Crashed
    /\ at[r] = "range"
    /\ IF channel # <<>>
       THEN /\ held' = [held EXCEPT ![r] = Head(channel)]
            /\ channel' = Tail(channel)
            /\ at' = [at EXCEPT ![r] = "r62"]
       ELSE /\ closed
            /\ at' = [at EXCEPT ![r] = "done"]
            /\ UNCHANGED <<held, channel>>
    /\ UNCHANGED <<m, buffer, receiver, sent, spilled>>
    /\ UNCHANGED <<recvVars, closeVars, groupVars, gonVars, mergeVars, ucVars>>

\* The goroutine of Receiver() sends x to the channel of every subscriber.
RelayBroadcast(r) ==
    /\ ~Crashed
    /\ at[r] = "r62"
    /\ ~closed
    /\ \A q \in Relays : Len(receiver[q]) < chanSize
    /\ receiver' = [q \in Relays |-> Append(receiver[q], held[r])]
    /\ at' = [at EXCEPT ![r] = "t101"]
    /\ UNCHANGED <<m, buffer, channel, held, sent, spilled>>
    /\ UNCHANGED <<recvVars, closeVars, groupVars, gonVars, mergeVars, ucVars>>

\* The goroutine of Receiver(), receiver <- x, then its call of
\* transferBufferToChannel.  The send panics when CloseWithOverflow has
\* closed the receiver.
RelayForward(r) ==
    /\ ~Crashed
    /\ at[r] = "r62"
    /\ IF closed
       THEN /\ Panic(r)
            /\ UNCHANGED receiver
       ELSE /\ Len(receiver[r]) < chanSize
            /\ receiver' = [receiver EXCEPT ![r] = Append(@, held[r])]
            /\ at' = [at EXCEPT ![r] = "t101"]
            /\ m' = m
    /\ UNCHANGED <<buffer, channel, held, sent, spilled>>
    /\ UNCHANGED <<recvVars, closeVars, groupVars, gonVars, mergeVars, ucVars>>

\* The subscriber receives from the channel Receiver() returned.
SubscriberTake(r) ==
    /\ ~Crashed
    /\ receiver[r] # <<>>
    /\ receiver' = [receiver EXCEPT ![r] = Tail(@)]
    /\ got' = [got EXCEPT ![r] = Append(@, Head(receiver[r]))]
    /\ UNCHANGED <<at, m, buffer, channel, held, sent, spilled>>
    /\ UNCHANGED <<call, ret, closeVars, groupVars, gonVars, mergeVars, ucVars>>

\* Consumer c calls what (Recv or TryRecv), which begins with
\* transferBufferToChannelLocked: ub.m.Lock().
Begin(c, what) ==
    /\ ~Crashed
    /\ at[c] = "idle"
    /\ m = "free"
    /\ m' = c
    /\ call' = [call EXCEPT ![c] = what]
    /\ at' = [at EXCEPT ![c] = "t101"]
    /\ UNCHANGED <<buffer, channel, receiver, held, sent, spilled>>
    /\ UNCHANGED <<ret, got, closeVars, groupVars, gonVars, mergeVars, ucVars>>

\* Recv, transferBufferToChannelLocked.
RecvCall(c) == Begin(c, "Recv")

\* TryRecv, transferBufferToChannelLocked.
TryRecvCall(c) == Begin(c, "TryRecv")

\* transferBufferToChannelLocked, the deferred ub.m.Unlock(); Recv goes on
\* to its receive, TryRecv to concurrent.TryRecv.
RecvUnlock(c) ==
    /\ ~Crashed
    /\ at[c] = "unlock"
    /\ m' = "free"
    /\ at' = [at EXCEPT ![c] = IF call[c] = "Recv" THEN "r36" ELSE "r44"]
    /\ UNCHANGED <<buffer, channel, receiver, held, sent, spilled>>
    /\ UNCHANGED <<recvVars, closeVars, groupVars, gonVars, mergeVars, ucVars>>

\* A receive that takes the oldest value of ub.channel.
Receive(c) ==
    /\ channel' = Tail(channel)
    /\ ret' = [ret EXCEPT ![c] = <<Head(channel), TRUE>>]
    /\ got' = [got EXCEPT ![c] = Append(@, Head(channel))]

\* A receive that returns the zero value and false.
ReceiveNothing(c) ==
    /\ ret' = [ret EXCEPT ![c] = <<0, FALSE>>]
    /\ UNCHANGED <<channel, got>>

\* Recv waits for a value whether ub.channel is closed or not.
RecvTakeWaits(c) ==
    /\ ~Crashed
    /\ at[c] = "r36"
    /\ channel # <<>>
    /\ Receive(c)
    /\ at' = [at EXCEPT ![c] = "idle"]
    /\ UNCHANGED <<m, buffer, receiver, held, sent, spilled>>
    /\ UNCHANGED <<call, closeVars, groupVars, gonVars, mergeVars, ucVars>>

\* Recv, x, received := <-ub.channel: waits while ub.channel is empty and
\* open.
RecvTake(c) ==
    /\ ~Crashed
    /\ at[c] = "r36"
    /\ IF channel # <<>> THEN Receive(c) ELSE closed /\ ReceiveNothing(c)
    /\ at' = [at EXCEPT ![c] = "idle"]
    /\ UNCHANGED <<m, buffer, receiver, held, sent, spilled>>
    /\ UNCHANGED <<call, closeVars, groupVars, gonVars, mergeVars, ucVars>>

\* TryRecv, concurrent.TryRecv(ub.channel): the default case of the select
\* when ub.channel is empty and open.
TryRecvTake(c) ==
    /\ ~Crashed
    /\ at[c] = "r44"
    /\ IF channel # <<>> THEN Receive(c) ELSE ReceiveNothing(c)
    /\ at' = [at EXCEPT ![c] = "idle"]
    /\ UNCHANGED <<m, buffer, receiver, held, sent, spilled>>
    /\ UNCHANGED <<call, closeVars, groupVars, gonVars, mergeVars, ucVars>>

\* CloseWithOverflow empties ub.buffer and returns nothing.
CloseDropsOverflow ==
    /\ ~Crashed
    /\ m = "free"
    /\ ~closed
    /\ buffer' = <<>>
    /\ closed' = TRUE
    /\ UNCHANGED <<at, m, channel, receiver, held, sent, spilled>>
    /\ UNCHANGED <<recvVars, overflow, groupVars, gonVars, mergeVars, ucVars>>

\* CloseWithOverflow, all of it under ub.m: the buffer is returned and
\* replaced by an empty one, ub.channel and the Receiver() channels are
\* closed.
CloseWithOverflow ==
    /\ ~Crashed
    /\ m = "free"
    /\ ~closed
    /\ overflow' = buffer
    /\ buffer' = <<>>
    /\ closed' = TRUE
    /\ UNCHANGED <<at, m, channel, receiver, held, sent, spilled>>
    /\ UNCHANGED <<recvVars, groupVars, gonVars, mergeVars, ucVars>>

\* One goroutine calls Send; Receiver() may be called once; a consumer may
\* call Recv and the subscriber may read its channel, at any time or never.
NextUnbounded ==
    \/ SendCall \/ SendLock \/ SendTry \/ SendAppend
    \/ \E p \in Goroutines : TransferCheck(p) \/ TransferSend(p) \/ TransferSlice(p)
    \/ Receiver("relay") \/ RelayRange("relay") \/ RelayForward("relay")
    \/ SubscriberTake("relay")
    \/ RecvCall("consumer") \/ RecvUnlock("consumer") \/ RecvTake("consumer")

\* The goroutine in Send is scheduled, and so is every goroutine inside
\* transferBufferToChannel or about to unlock ub.m; a sync.Mutex in
\* starvation mode hands the lock to the goroutine that waits for it.
\* Nothing receives from ub.channel or from the channel of Receiver()
\* unless it chooses to.
FairUnbounded ==
    /\ SF_vars(SendLock) /\ WF_vars(SendTry) /\ WF_vars(SendAppend)
    /\ \A p \in Goroutines :
          WF_vars(TransferCheck(p)) /\ WF_vars(TransferSend(p)) /\ WF_vars(TransferSlice(p))
    /\ \A c \in Consumers : WF_vars(RecvUnlock(c))

SpecUnbounded == Init /\ [][NextUnbounded]_vars /\ FairUnbounded

\* One producer and one consumer, no subscriber: Send calls interleaved in
\* every way with Recv and TryRecv calls of the consumer.
NextFifo ==
    \/ SendCall \/ SendLock \/ SendTry \/ SendAppend
    \/ \E p \in Goroutines : TransferCheck(p) \/ TransferSend(p) \/ TransferSlice(p)
    \/ RecvCall("consumer") \/ TryRecvCall("consumer") \/ RecvUnlock("consumer")
    \/ RecvTake("consumer") \/ TryRecvTake("consumer")

SpecFifo == Init /\ [][NextFifo]_vars


\* The caller that drains: it is in no call of its own and no Send is in
\* progress.
Settled == at["sender"] = "idle" /\ at["consumer"] = "idle"

\* Send calls with Recv and TryRecv calls of one consumer in between, then
\* CloseWithOverflow and TryRecv calls by that consumer.
NextDrain ==
    \/ (~closed /\ SendCall) \/ SendLock \/ SendTry \/ SendAppend
    \/ \E p \in Goroutines : TransferCheck(p) \/ TransferSend(p) \/ TransferSlice(p)
    \/ (~closed /\ RecvCall("consumer")) \/ TryRecvCall("consumer")
    \/ RecvUnlock("consumer") \/ RecvTake("consumer") \/ TryRecvTake("consumer")
    \/ (Settled /\ CloseWithOverflow)

SpecDrain == Init /\ [][NextDrain]_vars


\* Receiver() has been called twice.
Subscribed == \A r \in Relays : at[r] # "none"

\* Two subscribers, then Send calls; the subscribers read their channels.
NextSubscribers ==
    \/ \E r \in Relays : Receiver(r) \/ RelayRange(r) \/ RelayForward(r) \/ SubscriberTake(r)
    \/ (Subscribed /\ SendCall) \/ SendLock \/ SendTry \/ SendAppend
    \/ \E p \in Goroutines : TransferCheck(p) \/ TransferSend(p) \/ TransferSlice(p)

\* Every goroutine that can take a step is scheduled, the subscribers read
\* what is on their channels and both calls of Receiver() are made.
FairSubscribers ==
    /\ SF_vars(SendLock) /\ WF_vars(SendTry) /\ WF_vars(SendAppend)
    /\ \A p \in Goroutines :
          WF_vars(TransferCheck(p)) /\ WF_vars(TransferSend(p)) /\ WF_vars(TransferSlice(p))
    /\ \A r \in Relays :
          /\ WF_vars(Receiver(r)) /\ WF_vars(RelayRange(r))
          /\ WF_vars(RelayForward(r)) /\ WF_vars(SubscriberTake(r))

SpecSubscribers == Init /\ [][NextSubscribers]_vars /\ FairSubscribers


\* One producer and the consumers, each calling Recv; no subscriber.
NextRecv ==
    \/ SendCall \/ SendLock \/ SendTry \/ SendAppend
    \/ \E p \in Goroutines : TransferCheck(p) \/ TransferSend(p) \/ TransferSlice(p)
    \/ \E c \in Consumers : RecvCall(c) \/ RecvUnlock(c) \/ RecvTake(c)

\* Every goroutine that can take a step is scheduled; nobody need begin a
\* call.
FairRecv ==
    /\ SF_vars(SendLock) /\ WF_vars(SendTry) /\ WF_vars(SendAppend)
    /\ \A p \in Goroutines :
          WF_vars(TransferCheck(p)) /\ WF_vars(TransferSend(p)) /\ WF_vars(TransferSlice(p))
    /\ \A c \in Consumers : WF_vars(RecvUnlock(c)) /\ WF_vars(RecvTake(c))

SpecRecv == Init /\ [][NextRecv]_vars /\ FairRecv


\* Send calls and Recv calls of the consumers, then CloseWithOverflow, made
\* when no Send is in progress, and further Recv calls; a Recv call may be
\* waiting when the close is made.
NextClosed ==
    \/ (~closed /\ SendCall) \/ SendLock \/ SendTry \/ SendAppend
    \/ \E p \in Goroutines : TransferCheck(p) \/ TransferSend(p) \/ TransferSlice(p)
    \/ \E c \in Consumers : RecvCall(c) \/ RecvUnlock(c) \/ RecvTake(c)
    \/ (at["sender"] = "idle" /\ CloseWithOverflow)

SpecClosed == Init /\ [][NextClosed]_vars /\ FairRecv


\* No call is in progress.
Idle == \A p \in Goroutines : at[p] \in {"idle", "none"}

\* Send, Recv, TryRecv and CloseWithOverflow calls made one after the
\* other, each begun when the one before it has returned.
NextAlone ==
    \/ (Idle /\ ~closed /\ SendCall) \/ SendLock \/ SendTry \/ SendAppend
    \/ \E p \in Goroutines : TransferCheck(p) \/ TransferSend(p) \/ TransferSlice(p)
    \/ \E c \in Consumers :
          \/ (Idle /\ RecvCall(c)) \/ (Idle /\ TryRecvCall(c))
          \/ RecvUnlock(c) \/ RecvTake(c) \/ TryRecvTake(c)
    \/ (Idle /\ CloseWithOverflow)

SpecAlone == Init /\ [][NextAlone]_vars


\* Send calls and Recv and TryRecv calls of the consumers, with
\* CloseWithOverflow called at any moment.
NextClose ==
    \/ (~closed /\ SendCall) \/ SendLock \/ SendTry \/ SendAppend
    \/ \E p \in Goroutines : TransferCheck(p) \/ TransferSend(p) \/ TransferSlice(p)
    \/ \E c \in Consumers :
          \/ RecvCall(c) \/ TryRecvCall(c)
          \/ RecvUnlock(c) \/ RecvTake(c) \/ TryRecvTake(c)
    \/ CloseWithOverflow

SpecClose == Init /\ [][NextClose]_vars


----------------------------------------------------------------------------
\* GoN (src/unnamed/part_001): fn is run for the indices 0 .. n-1, each in
\* a piece of work that gr starts, and the errors are collected.

otherVars == <<groupVars, ubVars, mergeVars, ucVars>>
callVars == <<typed, launcher, num, does, wrapWorkFn, wrapGiven>>
joinsVars == <<jpos, jcount, newErrs, result>>

\* What fn does for the indices of a call with n = k; it is not called with
\* any other index.
Fns(k) == {d \in [Indices -> Outcomes] : \A i \in Indices : i >= k => d[i] = "nil"}

\* A panic that nothing recovers, in the goroutine that called GoN or in
\* one that runs a piece of work, ends the program.
Ended == goN = "panicked" \/ \E i \in Indices : step[i] = "panicked"

\* gr.GoN(n, fn) is called on a gr with the fields l and w, on which
\* SetWrapFn(g) was called if g is not "none": errs := make([]error, n),
\* var wg, i := 0.
GoNCallOn(t, l, w, g, k, d) ==
    /\ goN = "none"
    /\ typed' = t /\ launcher' = l /\ num' = k /\ does' = d
    /\ wrapWorkFn' = w /\ wrapGiven' = g
    /\ goN' = "loop"
    /\ UNCHANGED <<iter, step, invoked, slots, counter, joinsVars, otherVars>>

\* gr.GoN(n, fn) on a gr as its constructor made it: wrapWorkFn is recovered
\* in GoConcurrent() and GoSerial() and nil in the zero value.
GoNCall(t, l, k, d) ==
    GoNCallOn(t, l, IF l = "nil" THEN "nil" ELSE "recovered", "none", k, d)

\* GoConcurrent().GoN and GoSerial().GoN of the function-typed GoRoutine.
GoRoutineGoN(gr, k, d) ==
    GoNCall("func", IF gr = "GoConcurrent" THEN "go" ELSE "call", k, d)

\* for i := 0; i < n; i++ { wg.Add(1)
LoopAdd ==
    /\ goN = "loop" /\ iter < num
    /\ counter' = counter + 1
    /\ goN' = "launch"
    /\ UNCHANGED <<callVars, iter, step, invoked, slots, joinsVars, otherVars>>

\* The work of index iter starts: as a goroutine of its own, after which the
\* loop goes on, or as a call that the loop waits for.
Start ==
    /\ step' = [step EXCEPT ![iter] = "start"]
    /\ IF launcher = "call"
          THEN goN' = "inline" /\ iter' = iter
          ELSE goN' = "loop" /\ iter' = iter + 1

\* gr(func() { ... }) of the function-typed GoRoutine.
Launch ==
    /\ goN = "launch" /\ typed = "func"
    /\ Start
    /\ UNCHANGED <<callVars, invoked, slots, counter, joinsVars, otherVars>>

\* The work that GoSerial called has returned: i++.
LaunchReturn ==
    /\ goN = "inline" /\ step[iter] = "end"
    /\ goN' = "loop" /\ iter' = iter + 1
    /\ UNCHANGED <<callVars, step, invoked, slots, counter, joinsVars, otherVars>>

\* fn(i) is called.
WorkCall(i) ==
    /\ ~Ended /\ step[i] = "start"
    /\ invoked' = [invoked EXCEPT ![i] = @ + 1]
    /\ step' = [step EXCEPT ![i] = "running"]
    /\ UNCHANGED <<callVars, goN, iter, slots, counter, joinsVars, otherVars>>

\* WrapFn (228-233) recovers the panic of the function it runs: it calls
\* recovered when gr.wrapWorkFn is nil, and gr.wrapWorkFn otherwise, which
\* is recovered or a function of the caller that recovers nothing.
Traps == wrapWorkFn \in {"nil", "recovered"}

\* fn(i) returns and errs[i] = fn(i) is made, or fn(i) panics.  In the
\* function-typed GoN the deferred wg.Done() is the next thing to run in
\* both cases; in the struct-typed one WrapFn returns to the work function,
\* or the panic goes on through it.
WorkEnd(i) ==
    /\ ~Ended /\ step[i] = "running"
    /\ slots' = [slots EXCEPT ![i] =
                    IF does[i] = "panic" THEN @ ELSE fnReturn(i, does[i])]
    /\ step' = [step EXCEPT ![i] =
                    IF typed = "func" THEN "deferred"
                    ELSE IF does[i] = "panic" /\ ~Traps THEN "unwinding"
                    ELSE "check"]
    /\ UNCHANGED <<callVars, goN, iter, invoked, counter, joinsVars, otherVars>>

\* The deferred wg.Done() of the function given to recovered (line 58): it
\* runs when that function returns and when fn(i) panics, before recovered
\* returns.
WorkDone(i) ==
    /\ ~Ended /\ step[i] = "deferred"
    /\ counter' = counter - 1
    /\ step' = [step EXCEPT ![i] = "check"]
    /\ UNCHANGED <<callVars, goN, iter, invoked, slots, joinsVars, otherVars>>

\* if err != nil { errs[i] = err } with the err that recovered returned
\* (lines 61-63), which ends the work of the function-typed GoN.
WorkCheck(i) ==
    /\ ~Ended /\ step[i] = "check" /\ typed = "func"
    /\ slots' = [slots EXCEPT ![i] =
                    IF recovered(i, does[i]) # NilErr THEN recovered(i, does[i]) ELSE @]
    /\ step' = [step EXCEPT ![i] = "end"]
    /\ UNCHANGED <<callVars, goN, iter, invoked, counter, joinsVars, otherVars>>

\* The loop ends.
LoopEnd ==
    /\ goN = "loop" /\ iter = num
    /\ goN' = "wait"
    /\ UNCHANGED <<callVars, iter, step, invoked, slots, counter, joinsVars, otherVars>>

\* wg.Wait() that returns at once.
WaitEarly ==
    /\ goN = "wait"
    /\ goN' = "count"
    /\ UNCHANGED <<callVars, iter, step, invoked, slots, counter, joinsVars, otherVars>>

\* wg.Wait() returns: the counter is zero; joins(errs...) is called.
Wait ==
    /\ goN = "wait" /\ counter = 0
    /\ goN' = "count"
    /\ UNCHANGED <<callVars, iter, step, invoked, slots, counter, joinsVars, otherVars>>

\* The first loop of joins reads errs[jpos] and counts it when it is not
\* nil; after the last one joins returns nil if it counted none.
JoinsCount ==
    /\ goN = "count"
    /\ IF jpos < num
          THEN /\ jcount' = jcount + (IF slots[jpos] # NilErr THEN 1 ELSE 0)
               /\ jpos' = jpos + 1
               /\ UNCHANGED <<goN, result>>
          ELSE /\ jpos' = 0
               /\ goN' = IF jcount = 0 THEN "returned" ELSE "append"
               /\ result' = [nil |-> TRUE, errs |-> <<>>]
               /\ UNCHANGED jcount
    /\ UNCHANGED <<callVars, iter, step, invoked, slots, counter, newErrs, otherVars>>

\* The second loop of joins reads errs[jpos] and appends it when it is not
\* nil; after the last one joins returns newErrs.
JoinsAppend ==
    /\ goN = "append"
    /\ IF jpos < num
          THEN /\ newErrs' = IF slots[jpos] # NilErr
                                THEN Append(newErrs, slots[jpos]) ELSE newErrs
               /\ jpos' = jpos + 1
               /\ UNCHANGED <<goN, result>>
          ELSE /\ goN' = "returned"
               /\ result' = [nil |-> FALSE, errs |-> newErrs]
               /\ UNCHANGED <<jpos, newErrs>>
    /\ UNCHANGED <<callVars, iter, step, invoked, slots, counter, jcount, otherVars>>

\* One call of GoN on GoConcurrent() or GoSerial() of the function-typed
\* GoRoutine, with every n up to MaxN and every behaviour of fn.
NextGoN ==
    \/ \E gr \in GoRoutines, k \in 0 .. MaxN : \E d \in Fns(k) : GoRoutineGoN(gr, k, d)
    \/ LoopAdd \/ Launch \/ LaunchReturn \/ LoopEnd
    \/ \E i \in Indices : WorkCall(i) \/ WorkEnd(i) \/ WorkDone(i) \/ WorkCheck(i)
    \/ Wait \/ JoinsCount \/ JoinsAppend

SpecGoN == Init /\ [][NextGoN]_vars


\* The struct-typed GoRoutine (lines 137-324): gr.goRoutine is justGo in
\* GoConcurrent(), a plain call in GoSerial() and nil in the zero value;
\* gr.wrapWorkFn is recovered in the first two and nil in the zero value,
\* for which WrapFn calls recovered as well.
Launchers == {"go", "call", "nil"}

\* gr.GoN(n, fn) of the struct-typed GoRoutine.
StructGoN(l, k, d) == GoNCall("struct", l, k, d)

\* LaunchGoRoutine, lines 222-224: if gr.goRoutine == nil { justGo(fn) },
\* after which the function goes on to line 225.
LaunchGoRoutine ==
    /\ goN = "launch" /\ typed = "struct"
    /\ step' = [step EXCEPT ![iter] = IF launcher = "nil" THEN "start" ELSE @]
    /\ goN' = "l225"
    /\ UNCHANGED <<callVars, iter, invoked, slots, counter, joinsVars, otherVars>>

\* LaunchGoRoutine, line 225: gr.goRoutine(fn).  The call of a nil function
\* is a run-time panic in the goroutine that called GoN.
LaunchCall ==
    /\ goN = "l225"
    /\ IF launcher = "nil"
          THEN goN' = "panicked" /\ UNCHANGED <<iter, step>>
          ELSE Start
    /\ UNCHANGED <<callVars, invoked, slots, counter, joinsVars, otherVars>>

\* if err != nil && errs[i] == nil { errs[i] = err } with the err that
\* WrapFn returned (lines 249-251).
WrapCheck(i) ==
    /\ ~Ended /\ step[i] = "check" /\ typed = "struct"
    /\ slots' = [slots EXCEPT ![i] =
                    IF recovered(i, does[i]) # NilErr /\ @ = NilErr
                       THEN recovered(i, does[i]) ELSE @]
    /\ step' = [step EXCEPT ![i] = "done"]
    /\ UNCHANGED <<callVars, goN, iter, invoked, counter, joinsVars, otherVars>>

\* The deferred wg.Done() of the work function (line 243), which ends it.
WorkReturn(i) ==
    /\ ~Ended /\ step[i] = "done"
    /\ counter' = counter - 1
    /\ step' = [step EXCEPT ![i] = "end"]
    /\ UNCHANGED <<callVars, goN, iter, invoked, slots, joinsVars, otherVars>>

\* One call of GoN on GoConcurrent(), GoSerial() or the zero value of the
\* struct-typed GoRoutine.
NextLaunch ==
    \/ \E l \in Launchers, k \in 0 .. MaxN : \E d \in Fns(k) : StructGoN(l, k, d)
    \/ LoopAdd \/ LaunchGoRoutine \/ LaunchCall \/ LaunchReturn \/ LoopEnd
    \/ \E i \in Indices : WorkCall(i) \/ WorkEnd(i) \/ WrapCheck(i) \/ WorkReturn(i)
    \/ Wait \/ JoinsCount \/ JoinsAppend

SpecLaunch == Init /\ [][NextLaunch]_vars


\* The arguments given to SetWrapFn: nil, recovered, and a function of the
\* caller that runs its argument and recovers nothing.
Wrappers == {"nil", "recovered", "raise"}

\* gr.SetWrapFn(fn) (212-219), by the gr.wrapWorkFn of what it returns: when
\* fn is nil a pass-through function is stored, and then, in every case,
\* fn is stored.
SetWrapFn(w, fn) ==
    LET first == IF fn = "nil" THEN "raise" ELSE w
        second == fn
    IN  second

\* gr := GoConcurrent().SetWrapFn(fn) or GoSerial().SetWrapFn(fn), and
\* gr.GoN(n, fn).
WrappedGoN(l, fn, k, d) ==
    GoNCallOn("struct", l, SetWrapFn("recovered", fn), fn, k, d)

\* The panic of fn(i) has left WrapFn: the deferred wg.Done() of the work
\* function runs (line 243) and, nothing else recovering it, the panic ends
\* the program.
WorkPanic(i) ==
    /\ ~Ended /\ step[i] = "unwinding"
    /\ counter' = counter - 1
    /\ step' = [step EXCEPT ![i] = "panicked"]
    /\ UNCHANGED <<callVars, goN, iter, invoked, slots, joinsVars, otherVars>>

\* One call of GoN on a struct-typed GoRoutine on which SetWrapFn was
\* called.
NextWrap ==
    \/ \E l \in Launchers \ {"nil"}, fn \in Wrappers, k \in 0 .. MaxN :
          \E d \in Fns(k) : WrappedGoN(l, fn, k, d)
    \/ LoopAdd \/ LaunchGoRoutine \/ LaunchCall \/ LaunchReturn \/ LoopEnd
    \/ \E i \in Indices :
          WorkCall(i) \/ WorkEnd(i) \/ WrapCheck(i) \/ WorkReturn(i) \/ WorkPanic(i)
    \/ Wait \/ JoinsCount \/ JoinsAppend

SpecWrap == Init /\ [][NextWrap]_vars


----------------------------------------------------------------------------
\* ChannelMerge (src/concurrent.go): one goroutine for each input channel
\* copies its values to the unbuffered channel out, and one more closes out
\* when all of them are done.  The values are received from out as soon as
\* they are offered; <<c, j>> is the j-th value sent on input c.

restVars == <<groupVars, ubVars, gonVars, ucVars>>

\* The inputs that were given to ChannelMerge.
Given == {c \in Inputs : output[c].at # "none"}

\* The sender of an input channel closes it.
CloseInput(c) ==
    /\ ~cs[c].closed
    /\ cs' = [cs EXCEPT ![c].closed = TRUE]
    /\ UNCHANGED <<output, out, restVars>>

\* ChannelMerge(cs...) with the first k inputs: out is made, wg.Add(len(cs)),
\* the output goroutines and the closing goroutine are started.
ChannelMerge(k) ==
    /\ ~out.made
    /\ out' = [made |-> TRUE, wg |-> k, closed |-> FALSE, merged |-> <<>>]
    /\ output' = [c \in Inputs |->
                     IF c <= k THEN [at |-> "range", n |-> <<>>] ELSE output[c]]
    /\ UNCHANGED <<cs, restVars>>

\* for n := range c: the output goroutine receives the next value, which
\* the sender of c sends at that moment.
OutputRecv(c) ==
    /\ output[c].at = "range"
    /\ ~cs[c].closed /\ cs[c].sent < MaxValues
    /\ cs' = [cs EXCEPT ![c].sent = @ + 1]
    /\ output' = [output EXCEPT ![c] = [at |-> "send", n |-> <<c, cs[c].sent + 1>>]]
    /\ UNCHANGED <<out, restVars>>

\* out <- n, received from out at that moment; a send on a closed channel
\* is a panic.
OutputSend(c) ==
    /\ output[c].at = "send"
    /\ IF out.closed
          THEN output' = [output EXCEPT ![c].at = "panicked"] /\ out' = out
          ELSE /\ out' = [out EXCEPT !.merged = Append(@, output[c].n)]
               /\ output' = [output EXCEPT ![c].at = "range"]
    /\ UNCHANGED <<cs, restVars>>

\* The range ends, c being closed: wg.Done().
OutputDone(c) ==
    /\ output[c].at = "range" /\ cs[c].closed
    /\ output' = [output EXCEPT ![c].at = "end"]
    /\ out' = [out EXCEPT !.wg = @ - 1]
    /\ UNCHANGED <<cs, restVars>>

\* The closing goroutine with its wg.Wait() left out.
CloseOutEarly ==
    /\ out.made /\ ~out.closed
    /\ out' = [out EXCEPT !.closed = TRUE]
    /\ UNCHANGED <<cs, output, restVars>>

\* The closing goroutine: wg.Wait() returns and close(out).
CloseOut ==
    /\ out.made /\ ~out.closed
    /\ out.wg = 0
    /\ out' = [out EXCEPT !.closed = TRUE]
    /\ UNCHANGED <<cs, output, restVars>>

\* One call of ChannelMerge with up to MaxInputs inputs, on each of which
\* up to MaxValues values are sent before it is closed; inputs can be
\* closed before the call.
NextMerge ==
    \/ \E k \in 0 .. MaxInputs : ChannelMerge(k)
    \/ \E c \in Inputs : CloseInput(c) \/ OutputRecv(c) \/ OutputSend(c) \/ OutputDone(c)
    \/ CloseOut

\* The goroutines that ChannelMerge starts are scheduled; the senders of
\* the inputs send and close when they choose to.
FairMerge ==
    /\ \A c \in Inputs : WF_vars(OutputSend(c)) /\ WF_vars(OutputDone(c))
    /\ WF_vars(CloseOut)

SpecMerge == Init /\ [][NextMerge]_vars /\ FairMerge


----------------------------------------------------------------------------
\* UnboundedChan (src/unbounded_chan.go), the queue of g.errChan, called by
\* several goroutines at once.  Every method locks uc.m, works on
\* uc.sliceT and unlocks uc.m when it returns; the k-th value sent is
\* fnReturn(k, "err").

queueRest == <<unitVars, gateVars, goRoutine, wg, firstError, chanBuf, nChan,
               ctxVars, waitVars, ubVars, gonVars, mergeVars>>

\* The Send calls that have begun.
Sending == {t \in Callers : thr[t].op = "Send" /\ thr[t].at \in {"lock", "load", "store"}}

\* A goroutine calls uc.Send(x), uc.Recv() or uc.Drain().
ChanCall(t, op) ==
    /\ thr[t].at = "idle"
    /\ op = "Send" => taken.sent + Cardinality(Sending) < MaxSends
    /\ thr' = [thr EXCEPT ![t] = [at |-> "lock", op |-> op, data |-> <<>>, ret |-> <<>>]]
    /\ UNCHANGED <<errChan, ucm, taken, queueRest>>

\* uc.m.Lock() that does not wait for the mutex.
ChanLockBarges(t) ==
    /\ thr[t].at = "lock"
    /\ ucm' = t
    /\ thr' = [thr EXCEPT ![t].at = "load"]
    /\ UNCHANGED <<errChan, taken, queueRest>>

\* uc.m.Lock().
ChanLock(t) ==
    /\ thr[t].at = "lock"
    /\ ucm = "free"
    /\ ucm' = t
    /\ thr' = [thr EXCEPT ![t].at = "load"]
    /\ UNCHANGED <<errChan, taken, queueRest>>

\* The method reads uc.sliceT.
ChanLoad(t) ==
    /\ thr[t].at = "load"
    /\ thr' = [thr EXCEPT ![t].at = "store", ![t].data = errChan]
    /\ UNCHANGED <<errChan, ucm, taken, queueRest>>

\* Send: uc.sliceT = append(uc.sliceT, x).
Send(t) ==
    /\ errChan' = Append(thr[t].data, fnReturn(taken.sent + 1, "err"))
    /\ taken' = [taken EXCEPT !.sent = @ + 1]
    /\ thr' = [thr EXCEPT ![t].at = "unlock"]

\* Recv: the zero value and false when uc.sliceT is empty, else its first
\* element and true, with uc.sliceT = uc.sliceT[1:].
Recv(t) ==
    IF thr[t].data = <<>>
       THEN /\ thr' = [thr EXCEPT ![t].at = "unlock", ![t].ret = <<"Recv", NilErr, FALSE>>]
            /\ UNCHANGED <<errChan, taken>>
       ELSE /\ thr' = [thr EXCEPT ![t].at = "unlock",
                                  ![t].ret = <<"Recv", Head(thr[t].data), TRUE>>]
            /\ errChan' = Tail(thr[t].data)
            /\ taken' = [taken EXCEPT !.got = Append(@, Head(thr[t].data))]

\* Drain: nil when uc.sliceT is empty, else uc.sliceT, which is replaced by
\* a new empty slice.
Drain(t) ==
    IF thr[t].data = <<>>
       THEN /\ thr' = [thr EXCEPT ![t].at = "unlock", ![t].ret = <<"Drain", TRUE, <<>>>>]
            /\ UNCHANGED <<errChan, taken>>
       ELSE /\ thr' = [thr EXCEPT ![t].at = "unlock",
                                  ![t].ret = <<"Drain", FALSE, thr[t].data>>]
            /\ errChan' = <<>>
            /\ taken' = [taken EXCEPT !.got = @ \o thr[t].data]

\* The method writes uc.sliceT and has its result.
ChanStore(t) ==
    /\ thr[t].at = "store"
    /\ CASE thr[t].op = "Send" -> Send(t)
         [] thr[t].op = "Recv" -> Recv(t)
         [] thr[t].op = "Drain" -> Drain(t)
    /\ UNCHANGED <<ucm, queueRest>>

\* The deferred uc.m.Unlock(), and the return.
ChanUnlock(t) ==
    /\ thr[t].at = "unlock"
    /\ ucm' = "free"
    /\ thr' = [thr EXCEPT ![t].at = "idle"]
    /\ UNCHANGED <<errChan, taken, queueRest>>

\* The goroutines of Callers make Send, Recv and Drain calls in any order,
\* MaxSends Send calls in all.
NextQueue ==
    \E t \in Callers :
        \/ \E op \in {"Send", "Recv", "Drain"} : ChanCall(t, op)
        \/ ChanLock(t) \/ ChanLoad(t) \/ ChanStore(t) \/ ChanUnlock(t)

SpecQueue == Init /\ [][NextQueue]_vars


\* One goroutine calls Send, Receiver() is called once and its subscriber
\* reads; CloseWithOverflow is called at any moment.
NextShutdown ==
    \/ (~closed /\ SendCall) \/ SendLock \/ SendTry \/ SendAppend
    \/ \E p \in Goroutines : TransferCheck(p) \/ TransferSend(p) \/ TransferSlice(p)
    \/ Receiver("relay") \/ RelayRange("relay") \/ RelayForward("relay")
    \/ SubscriberTake("relay")
    \/ CloseWithOverflow

SpecShutdown == Init /\ [][NextShutdown]_vars


\* A further CloseWithOverflow call, by goroutine c: close(ub.channel) of a
\* channel that is closed panics; the deferred Unlock releases ub.m.
CloseAgain(c) ==
    /\ ~Crashed
    /\ at[c] = "idle" /\ call[c] = "none"
    /\ m = "free"
    /\ closed
    /\ at' = [at EXCEPT ![c] = "panicked"]
    /\ UNCHANGED <<m, buffer, channel, receiver, held, sent, spilled>>
    /\ UNCHANGED <<recvVars, closeVars, groupVars, gonVars, mergeVars, ucVars>>

\* Send calls and TryRecv calls of a consumer, before and after a
\* CloseWithOverflow call, and CloseWithOverflow calls after the first.
NextAfterClose ==
    \/ SendCall \/ SendLock \/ SendTry \/ SendAppend
    \/ \E p \in Goroutines : TransferCheck(p) \/ TransferSend(p) \/ TransferSlice(p)
    \/ TryRecvCall("consumer") \/ RecvUnlock("consumer") \/ TryRecvTake("consumer")
    \/ CloseWithOverflow
    \/ CloseAgain("consumer2")

SpecAfterClose == Init /\ [][NextAfterClose]_vars

----------------------------------------------------------------------------
\* Properties of the admission gate.

\* The positions of a unit between its admission and its release of the gate.
Holding == {"admitted", "running", "send", "check", "make", "trysend", "release"}
\* The positions of a unit that was admitted and has not completed.
Active == Holding \cup {"wgdone"}

HoldingUnits == {u \in Units : pc[u] \in Holding}

\* C1: with a limit k >= 0 set before any submission, the number of units
\* that were admitted and have not yet released the gate is at most k.
C1_AdmissionBound ==
    limiterCap # NoLimiter => Cardinality(HoldingUnits) <= limiterCap

\* A unit runs under limit MaxLimit while the next one is refused by TryGo.
C1_Witness ==
    /\ limiterCap = MaxLimit
    /\ Cardinality(HoldingUnits) = MaxLimit
    /\ \E u \in Units : pc[u] = "rejected"

\* C10: a SetLimit call made while an admitted unit has not completed
\* panics and leaves the gate as it was.
C10_SetLimitPanicsWhileActive ==
    [][((\E u \in Units : pc[u] \in Active) /\ (\E n \in Limits : SetLimit(n)))
          => (fatal' /\ UNCHANGED <<limiterCap, limiterLen>>)]_vars

----------------------------------------------------------------------------
\* Properties of Wait.

SeqToSet(q) == {q[i] : i \in 1 .. Len(q)}
\* How many times e occurs in q.
Count(e, q) == Cardinality({i \in 1 .. Len(q) : q[i] = e})

\* The units whose work function returned an error or panicked.
Failed == {u \in Units : outcome[u] \notin {"none", "nil"}}
Panicked == {u \in Units : outcome[u] = "panic"}
\* The units that have been submitted and admitted.
Submitted == {u \in Units : pc[u] \notin {"idle", "rejected"}}
\* The units whose failure g.error has recorded.
Recorded == {u \in Failed : pc[u] \in {"release", "wgdone", "finished"}}
ErrorsOf(S) == {unitError(u, outcome[u]) : u \in S}

\* C2: when the units were all submitted before the Wait call began and no
\* WaitOrError call is made, Wait returns the errors of the units that
\* returned an error or panicked, each once, and nothing else (an empty
\* result when none failed).
C2_WaitErrorCompleteness ==
    (wkind[1] = "Wait" /\ wpc[1] = "returned" /\ Submitted = before[1]) =>
        /\ SeqToSet(wres[1]) = ErrorsOf(Failed)
        /\ Len(wres[1]) = Cardinality(Failed)
        /\ NilErr \notin SeqToSet(wres[1])

\* Wait has returned for a group in which one unit failed and one succeeded.
C2_Witness ==
    /\ wkind[1] = "Wait" /\ wpc[1] = "returned"
    /\ Submitted = before[1]
    /\ before[1] = Units
    /\ \E u \in Units : outcome[u] = "err"
    /\ \E u \in Units : outcome[u] = "nil"
    /\ Len(wres[1]) = Cardinality(Failed)

\* C4: in every state in which a failure has been recorded by g.error the
\* derived context is cancelled.
C4_EagerCancellation == Recorded # {} => ctxDone

\* C9: a unit whose work function panics puts exactly one error in the
\* result of the next Wait, gives back its gate token and its WaitGroup
\* count exactly once, and leaves its siblings and Wait able to go on: the
\* WaitGroup counts exactly the registered units that have not called
\* wg.Done, the limiter holds exactly the tokens of the units that have not
\* received from it, and a unit never finds the limiter empty in g.done.
C9_PanicIsolation ==
    /\ wg = Cardinality({u \in Units : pc[u] \in Active \ {"admitted"}})
    /\ limiterLen = Cardinality({u \in Units : tok[u] /\ pc[u] \in Holding})
    /\ \A u \in Units :
          (pc[u] = "release" /\ limiterCap # NoLimiter) => limiterLen > 0
    /\ \A u \in Panicked :
          (wpc[1] = "returned" /\ u \in before[1]) =>
              Count(unitError(u, outcome[u]), wres[1]) = 1

\* A unit panicked under a limit, its sibling was admitted after it gave
\* back its token and succeeded, and Wait returned the one error.
C9_Witness ==
    /\ limiterCap = 1
    /\ wpc[1] = "returned" /\ before[1] = Units
    /\ \E u \in Panicked : \E v \in Units \ {u} :
          /\ pc[u] = "finished" /\ pc[v] = "finished"
          /\ outcome[v] = "nil"
          /\ wres[1] = <<unitError(u, outcome[u])>>

----------------------------------------------------------------------------
\* Properties of WaitOrError.

\* The errors the calls have returned.
Returned == UNION {SeqToSet(wres[w]) : w \in Waits}
\* Call w is a WaitOrError call that has returned.
WaitOrErrorReturned(w) == wkind[w] = "WaitOrError" /\ wpc[w] = "returned"
\* Call w is a WaitOrError call that has begun and not returned.
WaitOrErrorPending(w) ==
    wkind[w] = "WaitOrError" /\ wpc[w] \notin {"idle", "returned"}

\* C3: whatever WaitOrError calls were made, once the Wait call that began
\* after all units had finished has returned, every error a unit recorded
\* has been returned by one of the calls.
C3_NoErrorLost ==
    wpc[FinalWait] = "returned" =>
        ErrorsOf(Failed \cap before[FinalWait]) \subseteq Returned

\* C5: once a unit has recorded an error, a pending WaitOrError call
\* eventually returns a non-nil error that a unit recorded, even if other
\* units never finish.
C5_ShortCircuit ==
    \A w \in Racers :
        (WaitOrErrorPending(w) /\ Recorded # {}) ~>
            (WaitOrErrorReturned(w) /\ wres[w] # <<>>
                /\ SeqToSet(wres[w]) \subseteq ErrorsOf(Failed))

\* C6: a WaitOrError call that began when no error had been recorded returns
\* nil only if every unit admitted before the call has completed without
\* error.
C6_NilResult ==
    \A w \in Waits :
        (WaitOrErrorReturned(w) /\ clean[w] /\ wres[w] = <<>>) =>
            \A u \in before[w] : pc[u] = "finished" /\ outcome[u] = "nil"

\* C7: in a group with exactly one failing unit, all units submitted before
\* the calls, WaitOrError returns the error E of that unit and the Wait call
\* made after it returns nothing.
C7_WaitAfterWaitOrError ==
    (/\ WaitOrErrorReturned(1)
     /\ wkind[2] = "Wait" /\ wpc[2] = "returned"
     /\ Submitted = before[1]
     /\ Cardinality(Failed) = 1) =>
        /\ SeqToSet(wres[1]) = ErrorsOf(Failed)
        /\ wres[2] = <<>>

\* C8: an error that a Wait or WaitOrError call has returned is not returned
\* again by a WaitOrError call made later.
C8_ReturnedOnce ==
    \A w \in Waits : \A v \in Waits :
        (w < v /\ wpc[w] = "returned" /\ WaitOrErrorReturned(v)) =>
            SeqToSet(wres[w]) \cap SeqToSet(wres[v]) = {}

----------------------------------------------------------------------------
\* Properties of TryGo, of the release of the gate and of cancellation.

\* The gate holds as many tokens as its limit allows.
GateFull == limiterCap # NoLimiter /\ limiterLen = limiterCap

\* C11: TryGo never blocks; with a limit it returns false exactly when the
\* gate is full at the moment of the attempt, and then the unit never runs
\* and the gate and the in-flight count are as before; otherwise it takes
\* exactly one token and g.do registers exactly one unit.
C11_TryGoNonBlocking ==
    /\ [](\A u \in Units : (NextToSubmit(u) /\ ~fatal) => ENABLED TryGo(u))
    /\ [][\A u \in Units : TryGo(u) =>
              IF GateFull
              THEN /\ pc'[u] = "rejected"
                   /\ limiterLen' = limiterLen /\ wg' = wg /\ tok' = tok
              ELSE /\ pc'[u] = "admitted"
                   /\ limiterLen' =
                          IF limiterCap = NoLimiter THEN limiterLen ELSE limiterLen + 1]_vars
    /\ [][\A u \in Units : pc[u] = "rejected" =>
              pc'[u] = "rejected" /\ outcome'[u] = "none"]_vars
    /\ [][\A u \in Units : Do(u) => wg' = wg + 1 /\ limiterLen' = limiterLen]_vars

\* TryGo has returned false for a unit while the gate was full of running
\* units, and nothing of that unit has started.
C11_Witness ==
    /\ GateFull /\ limiterCap >= 1
    /\ wg = limiterCap
    /\ \E u \in Units : pc[u] = "rejected" /\ outcome[u] = "none" /\ ~tok[u]

\* The Wait call has returned and every unit submitted so far was registered
\* before it began: no submission raced with it or followed it.
WaitReturnedAlone ==
    wkind[1] = "Wait" /\ wpc[1] = "returned" /\ Submitted = before[1]

\* C12: with a limit k > 0 and no submission racing with Wait, the gate
\* holds no token when Wait returns, and a TryGo made then returns true.
C12_GateFreeAfterWait ==
    /\ []((WaitReturnedAlone /\ limiterCap > 0) => limiterLen = 0)
    /\ [][\A u \in Units :
              (WaitReturnedAlone /\ limiterCap > 0 /\ TryGo(u)) =>
                  pc'[u] = "admitted" /\ tok'[u]]_vars

\* Wait has returned after a unit ran under a limit, the gate is empty and
\* the next unit has not been submitted yet.
C12_Witness ==
    /\ WaitReturnedAlone /\ limiterCap > 0
    /\ before[1] # {}
    /\ limiterLen = 0
    /\ \E u \in Units : NextToSubmit(u) /\ ENABLED TryGo(u)

\* C13: once a Wait or WaitOrError call has returned the derived context is
\* done, whatever the call returned and whether or not a unit was submitted.
C13_CancelOnReturn ==
    \A w \in Waits : wpc[w] = "returned" => ctxDone

\* A call has returned with no error, on a group to which no unit was submitted.
C13_Witness ==
    /\ wpc[1] = "returned" /\ wres[1] = <<>>
    /\ \A u \in Units : pc[u] = "idle"
    /\ ctxDone

\* The error of unit u is in the error queue or in the result of the Wait call.
InQueueOrResult(u) ==
    Count(unitError(u, outcome[u]), errChan \o wres[1]) = 1

\* C14: whatever its outcome, a unit gives back its gate token once and
\* decrements the WaitGroup once, in that order and only after its error,
\* if any, is in the error queue: every decrease of the limiter or of the
\* WaitGroup is the single step of one unit, and a Wait that has seen the
\* WaitGroup at zero finds the errors of the completed units in the queue.
C14_ReleaseOrdering ==
    /\ [][\A u \in Units : (pc[u] = "release" /\ pc'[u] # "release") =>
              /\ pc'[u] = "wgdone"
              /\ limiterLen' = IF tok[u] THEN limiterLen - 1 ELSE limiterLen
              /\ wg' = wg
              /\ u \in Failed => InQueueOrResult(u)]_vars
    /\ [][\A u \in Units : (pc[u] = "wgdone" /\ pc'[u] # "wgdone") =>
              /\ pc'[u] = "finished"
              /\ wg' = wg - 1 /\ limiterLen' = limiterLen
              /\ u \in Failed => InQueueOrResult(u)]_vars
    /\ [][\A u \in Units : pc[u] = "finished" => pc'[u] = "finished"]_vars
    /\ [][limiterLen' < limiterLen =>
              \E u \in Units : pc[u] = "release" /\ pc'[u] = "wgdone"]_vars
    /\ [][wg' < wg =>
              \E u \in Units : pc[u] = "wgdone" /\ pc'[u] = "finished"]_vars
    /\ [](wpc[1] = "drain" =>
              \A u \in before[1] \cap Failed :
                  unitError(u, outcome[u]) \in SeqToSet(errChan))

\* A unit that panicked under a limit has given back its token and its
\* WaitGroup count, and Wait, past g.wg.Wait(), finds its error in the queue.
C14_Witness ==
    /\ limiterCap >= 1 /\ limiterLen = 0 /\ wg = 0
    /\ wpc[1] = "drain"
    /\ \E u \in Panicked \cap before[1] :
          /\ pc[u] = "finished" /\ tok[u]
          /\ unitError(u, outcome[u]) \in SeqToSet(errChan)

----------------------------------------------------------------------------
\* Properties of the batches of Wait.

\* The Wait calls whose result holds e.
ResultsWith(e) == {w \in Waits : e \in SeqToSet(wres[w])}
\* Every error sent to the error queue is once in the queue or once in the
\* result of exactly one call, and a result never changes after the return.
OncePerError ==
    /\ [](\A u \in Sent :
            LET e == unitError(u, outcome[u]) IN
            /\ Count(e, errChan) + Cardinality(ResultsWith(e)) = 1
            /\ \A w \in Waits : Count(e, wres[w]) <= 1)
    /\ [][\A w \in Waits : wpc[w] = "returned" =>
              wpc'[w] = "returned" /\ wres'[w] = wres[w]]_vars
\* Call v is the first call that began after unit u had completed.
FirstAfter(u, v) ==
    u \in ended[v] /\ \A w \in Waits : w < v => u \notin ended[w]

\* C15 as stated: in a group drained only by Wait, every recorded error is
\* in exactly one Wait result, never in the result of a call that returned
\* before the unit was submitted, and in the result of the first Wait call
\* that began after the unit completed.
C15_WaitBatches ==
    /\ OncePerError
    /\ [](\A v \in Waits : wpc[v] = "returned" =>
            \A u \in Failed : FirstAfter(u, v) =>
                unitError(u, outcome[u]) \in SeqToSet(wres[v]))

\* C15 as amended: in a group drained only by Wait, every recorded error is
\* in exactly one Wait result, never in the result of a call that returned
\* before the unit was submitted, and, once a Wait call that began after the
\* unit completed has returned, in the result of some Wait call.
C15_WaitBatchesAmended ==
    /\ OncePerError
    /\ [](\A v \in Waits : wpc[v] = "returned" =>
            \A u \in Failed \cap ended[v] :
                unitError(u, outcome[u]) \in Returned)

\* A unit submitted after the first Wait returned failed during the second
\* Wait, whose result holds its error; the third Wait began after the unit
\* had completed and returned nothing.
C15_Witness ==
    /\ \A w \in Waits : wpc[w] = "returned"
    /\ \E u \in Failed :
          /\ FirstAfter(u, 3)
          /\ wres[2] = <<unitError(u, outcome[u])>>
          /\ wres[3] = <<>>

----------------------------------------------------------------------------
\* Properties of the launch strategy.

\* The units whose Go call has returned.
GoReturned == {u \in Units : pc[u] \notin {"idle", "admitted", "rejected"}}
\* The units that are registered and have not given back their gate token.
RunningUnits == {u \in Units : pc[u] \in Holding \ {"admitted"}}

\* C16: with the strategy GoSerial, a Go call has not returned before its
\* unit has finished, recorded its outcome and released the gate, and at
\* most one unit is running.
C16_SerialLaunch ==
    goRoutine = "GoSerial" =>
        /\ \A u \in GoReturned : pc[u] \in {"wgdone", "finished"}
        /\ Cardinality(RunningUnits) <= 1

----------------------------------------------------------------------------
\* Properties of the blocking Go.

\* The Go call of unit u is the next one and finds the gate full.
GoBlocked(u) == limiterCap >= 1 /\ GateFull /\ NextToSubmit(u)

\* C17: with a limit k >= 1, a Go call that finds the gate full neither
\* registers nor starts its unit before it has sent its token, and it is
\* admitted in the end when every work function returns or panics.
C17_BlockingAdmission ==
    /\ [](limiterCap >= 1 =>
            \A u \in Units : pc[u] # "idle" => tok[u])
    /\ [][\A u \in Units : GoBlocked(u) => pc'[u] = "idle"]_vars
    /\ [](\A u \in Units : pc[u] = "idle" => u \notin Registered /\ outcome[u] = "none")
    /\ \A u \in Units : GoBlocked(u) ~> (pc[u] = "admitted" /\ tok[u])

\* A Go call waits at the full gate for a unit that is running.
C17_Witness ==
    \E u \in Units :
        /\ GoBlocked(u) /\ ~ENABLED Go(u)
        /\ \E v \in Units : pc[v] = "running" /\ tok[v]

----------------------------------------------------------------------------
\* Termination of Wait.

\* g.wg.Wait() of the Wait call returns only when every unit registered
\* before the call began has completed.
WaitsForRegistered ==
    [][WaitWg(1) => \A u \in before[1] : pc[u] = "finished"]_vars

\* C18 as stated: when every work function returns or panics and SetLimit
\* is called only on a quiescent group, a Wait call returns in the end, and
\* only after the units admitted before it began have completed.
C18_WaitTerminates ==
    /\ WaitsForRegistered
    /\ (wpc[1] = "wgwait") ~> (wpc[1] = "returned")

\* C18 as amended: the same, unless Go calls are made for ever.
C18_WaitTerminatesAmended ==
    /\ WaitsForRegistered
    /\ \/ (wpc[1] = "wgwait") ~> (wpc[1] = "returned")
       \/ []<><<\E u \in Units : Go(u)>>_vars

\* Wait has returned after a unit registered before it began had panicked
\* and completed.
C18_Witness ==
    /\ wkind[1] = "Wait" /\ wpc[1] = "returned"
    /\ \E u \in before[1] : pc[u] = "finished" /\ outcome[u] = "panic"

----------------------------------------------------------------------------
\* The limit zero.

\* C19: while the limit set on the quiescent group is 0, every TryGo
\* returns false and starts nothing, no unit is registered or running, and
\* a Wait call goes through g.wg.Wait() at once and returns no error.
C19_LimitZero ==
    /\ [][limiterCap = 0 => \A u \in Units :
              /\ TryGo(u) => pc'[u] = "rejected"
              /\ pc[u] \in {"idle", "rejected"} => pc'[u] \in {"idle", "rejected"}]_vars
    /\ [](limiterCap = 0 => RunningUnits = {} /\ wg = 0 /\ limiterLen = 0)
    /\ [](limiterCap = 0 =>
            \A w \in Waits : wpc[w] = "wgwait" => ENABLED WaitWg(w))
    /\ [][limiterCap = 0 =>
              \A w \in Waits : WaitDrain(w) => wres'[w] = <<>>]_vars

\* After a first batch and its Wait, the limit is 0, TryGo has returned
\* false and the second Wait has returned no error.
C19_Witness ==
    /\ limiterCap = 0
    /\ pc[1] = "finished" /\ outcome[1] = "err"
    /\ \E u \in Units : pc[u] = "rejected"
    /\ wpc[1] = "returned" /\ wres[1] # <<>>
    /\ wkind[2] = "Wait" /\ wpc[2] = "returned" /\ wres[2] = <<>>

----------------------------------------------------------------------------
\* Send on an Unbounded.

InSend == at["sender"] # "idle"

\* C20: every Send call that has begun on the open Unbounded returns,
\* whatever the consumers do: with nobody receiving, with ub.channel full,
\* with the channel of Receiver() full and never read.
C20_SendNeverBlocks ==
    \A k \in 0 .. MaxSends - 1 : (InSend /\ sent = k) ~> (sent = k + 1)

----------------------------------------------------------------------------
\* Order of delivery of an Unbounded.

\* The values 1 .. n in the order they were sent.
SentOrder(n) == [i \in 1 .. n |-> i]

\* What is queued: ub.channel, then ub.buffer without the element that a
\* goroutine between TrySend and ub.buffer = ub.buffer[1:] has already put
\* on ub.channel.
Queued ==
    channel \o (IF \E p \in Goroutines : at[p] = "t106" THEN Tail(buffer) ELSE buffer)

\* C21: with one producer and one consumer and no subscriber, the values
\* the consumer has received are the first values sent, in the order they
\* were sent, and what is still queued in ub.channel and ub.buffer follows
\* them in that order.
C21_Fifo ==
    /\ got["consumer"] = SentOrder(Len(got["consumer"]))
    /\ got["consumer"] \o Queued = SentOrder(sent)

\* The consumer has received every value, one of which went through the
\* overflow buffer.
C21_Witness ==
    /\ got["consumer"] = SentOrder(MaxSends)
    /\ spilled # {}

----------------------------------------------------------------------------
\* Draining an Unbounded.

\* The values of a sequence.
Range(seq) == {seq[i] : i \in DOMAIN seq}

\* seq holds each of the values 1 .. n once and nothing else.
EachOnce(seq, n) == Len(seq) = n /\ Range(seq) = 1 .. n

\* C22: what CloseWithOverflow returned, what the consumer has received and
\* what is still queued hold every value sent exactly once; a TryRecv of
\* the loop that follows CloseWithOverflow reports false only when nothing
\* is queued any more, so that the overflow and the values received, before
\* the close and by the loop, then are the values sent, none twice and none
\* lost.
C22_DrainCompleteness ==
    /\ [](EachOnce(got["consumer"] \o Queued \o overflow, sent))
    /\ [][closed /\ TryRecvTake("consumer") /\ ~ret'["consumer"][2]
            => Queued' = <<>> /\ EachOnce(got'["consumer"] \o overflow', sent')]_vars

\* More values were sent than ub.channel holds, one was received before
\* the close, and the loop after CloseWithOverflow has come to its end.
C22_Witness ==
    /\ closed /\ sent = MaxSends
    /\ overflow # <<>>
    /\ Len(got["consumer"]) > 1
    /\ at["consumer"] = "idle" /\ call["consumer"] = "TryRecv"
    /\ ret["consumer"] = <<0, FALSE>>
    /\ Queued = <<>>

----------------------------------------------------------------------------
\* The subscribers of an Unbounded.

\* What has been delivered on the output of subscriber r.
Delivered(r) == got[r] \o receiver[r]

\* How many times v occurs in seq.
Occurs(v, seq) == Cardinality({i \in DOMAIN seq : seq[i] = v})

\* C23: with two subscribers, every value sent after both subscriptions is
\* eventually delivered on the output of each of them.
C23_Broadcast ==
    \A v \in 1 .. MaxSends : \A r \in Relays :
        (sent >= v) ~> (v \in Range(Delivered(r)))

\* C23, amended: every value is delivered on the output of the subscriber
\* whose goroutine took it from ub.channel and on no other, so that a value
\* that Send put on ub.channel itself is delivered on at most one output.
C23_Split ==
    /\ [][\A r \in Relays : RelayForward(r) /\ at'[r] # "panicked" =>
              /\ receiver'[r] = Append(receiver[r], held[r])
              /\ \A q \in Relays \ {r} : receiver'[q] = receiver[q]]_vars
    /\ [](\A v \in (1 .. sent) \ spilled :
              Occurs(v, Delivered("relay")) + Occurs(v, Delivered("relay2")) <= 1)

\* Both subscribers have received values sent after the two subscriptions,
\* and neither has received what the other has.
C23_Witness ==
    /\ Subscribed /\ sent = MaxSends
    /\ got["relay"] # <<>> /\ got["relay2"] # <<>>
    /\ Range(Delivered("relay")) \cap Range(Delivered("relay2")) = {}
    /\ \A r \in Relays : at[r] = "range" /\ receiver[r] = <<>>
    /\ channel = <<>> /\ buffer = <<>>

----------------------------------------------------------------------------
\* Recv on an open Unbounded.

\* C24: a Recv call that waits while a value is queued, in ub.channel or in
\* ub.buffer, eventually returns, unless other consumers take all that is
\* queued: no Recv call waits for ever while ub.buffer holds a value.
C24_RecvReturnsQueued ==
    \A c \in Consumers :
        (at[c] = "r36" /\ Queued # <<>>) ~> (at[c] # "r36" \/ Queued = <<>>)

----------------------------------------------------------------------------
\* Recv on a closed Unbounded.

\* C25: once CloseWithOverflow has been called a Recv call never waits: its
\* receive can always be made and the call returns; it returns the oldest
\* value of ub.channel with true, and the zero value with false when
\* ub.channel is empty, as it is for a call that was waiting on the empty
\* queue when the close was made.
C25_RecvAfterClose ==
    /\ [](closed => ~Crashed /\ buffer = <<>>)
    /\ [](\A c \in Consumers : closed /\ at[c] = "r36" => ENABLED RecvTake(c))
    /\ [][\A c \in Consumers : closed /\ RecvTake(c) =>
              IF channel # <<>>
              THEN ret'[c] = <<Head(channel), TRUE>> /\ channel' = Tail(channel)
              ELSE ret'[c] = <<0, FALSE>> /\ channel' = channel]_vars
    /\ \A c \in Consumers : (closed /\ at[c] # "idle") ~> (at[c] = "idle")

\* The close was made with a value on ub.channel and one in ub.buffer; a
\* Recv call has returned the value of ub.channel and another one has
\* returned false.
C25_Witness ==
    /\ closed /\ overflow # <<>> /\ channel = <<>>
    /\ at["consumer"] = "idle" /\ ret["consumer"] = <<0, FALSE>>
    /\ at["consumer2"] = "idle" /\ ret["consumer2"] = <<1, TRUE>>

----------------------------------------------------------------------------
\* TryRecv with no concurrent operation.

\* Consumer c is inside a TryRecv call.
InTryRecv(c) == at[c] # "idle" /\ call[c] = "TryRecv"

\* C26: with no concurrent operation a TryRecv call can be begun and can
\* take each of its steps, none of which changes what is queued before its
\* receive; it returns the zero value and false when ub.channel and
\* ub.buffer are both empty, on a closed queue too, and otherwise the
\* oldest queued value with true.
C26_TryRecvExact ==
    /\ [](~Crashed)
    /\ [](\A c \in Consumers :
             /\ Idle => ENABLED TryRecvCall(c)
             /\ InTryRecv(c) =>
                   ENABLED (TransferCheck(c) \/ TransferSend(c) \/ TransferSlice(c)
                            \/ RecvUnlock(c) \/ TryRecvTake(c)))
    /\ [][\A c \in Consumers : InTryRecv(c) /\ ~TryRecvTake(c) => Queued' = Queued]_vars
    /\ [][\A c \in Consumers : TryRecvTake(c) =>
              IF Queued = <<>>
              THEN ret'[c] = <<0, FALSE>> /\ Queued' = <<>>
              ELSE ret'[c] = <<Head(Queued), TRUE>> /\ Queued' = Tail(Queued)]_vars

\* A TryRecv call has returned a value that was in ub.buffer, and after
\* CloseWithOverflow another one has returned false on the exhausted queue.
C26_Witness ==
    /\ closed /\ Queued = <<>>
    /\ at["consumer"] = "idle" /\ call["consumer"] = "TryRecv"
    /\ ret["consumer"] = <<0, FALSE>>
    /\ at["consumer2"] = "idle" /\ call["consumer2"] = "TryRecv"
    /\ ret["consumer2"][2] /\ ret["consumer2"][1] \in spilled

----------------------------------------------------------------------------
\* The effect of CloseWithOverflow.

\* seq is in the order of the Send calls.
InSendOrder(seq) == \A i, j \in DOMAIN seq : i < j => seq[i] < seq[j]

----------------------------------------------------------------------------
\* GoN.

\* The errors of the indices 0 .. num-1, in index order, that f gives.
errorsBy(f(_)) == joins([k \in 1 .. num |-> f(k - 1)])

\* The errors that the calls of fn returned.
ReturnedByFn == errorsBy(LAMBDA i : fnReturn(i, does[i]))

\* The errors of the calls of fn that failed, by an error or by a panic.
FailedByFn == errorsBy(LAMBDA i : unitError(i, does[i]))

\* C28: when GoN of the function-typed GoRoutine returns, fn has been called
\* once with each index below n and with no other, every call has ended,
\* the result is nil when no call failed, and otherwise it holds the
\* returned errors, in index order: all of them and, when no call panicked,
\* nothing else.
C28_GoN ==
    /\ \A i \in Indices : invoked[i] <= 1
    /\ goN = "returned" =>
          /\ \A i \in Indices : invoked[i] = (IF i < num THEN 1 ELSE 0)
          /\ \A i \in Indices : step[i] \notin {"start", "running"}
          /\ FailedByFn = <<>> => result.nil
          /\ result.nil => result.errs = <<>> /\ ReturnedByFn = <<>>
          /\ ~result.nil => result.errs # <<>>
          /\ result.errs = SelectSeq(FailedByFn, LAMBDA e : e \in Range(result.errs))
          /\ Range(ReturnedByFn) \subseteq Range(result.errs)
          /\ (\A i \in Indices : does[i] # "panic") => result.errs = ReturnedByFn

\* GoN has returned the errors of the indices 0 and 1.
C28_Witness ==
    /\ goN = "returned" /\ typed = "func" /\ num = MaxN
    /\ does[0] = "err" /\ does[1] = "err"
    /\ Len(result.errs) = 2


\* C29: when GoN of the function-typed GoRoutine returns, the result holds
\* an error for every index whose call of fn panicked: the error that
\* recovered made of the panic.
C29_PanicReturned ==
    (goN = "returned" /\ typed = "func") =>
        \A i \in Indices :
            (i < num /\ does[i] = "panic") =>
                recovered(i, does[i]) \in Range(result.errs)


\* C30: on the zero value of the struct-typed GoRoutine no nil function is
\* called, fn is called at most once with each index and, when GoN has
\* returned, once with each index below n, and the error of each call that
\* failed is in the result.
C30_ZeroValueValid ==
    (typed = "struct" /\ launcher = "nil") =>
        /\ ~Ended
        /\ \A i \in Indices : invoked[i] <= 1
        /\ goN = "returned" =>
              /\ \A i \in Indices : invoked[i] = (IF i < num THEN 1 ELSE 0)
              /\ result.errs = FailedByFn


\* C31: after gr.SetWrapFn(nil) a panic of fn(i) is not recovered by
\* WrapFn: WrapFn does not return to the work function, and no error made
\* of the panic is stored in errs[i].
C31_RaisePanics ==
    \A i \in Indices :
        (typed = "struct" /\ wrapGiven = "nil" /\ does[i] = "panic") =>
            /\ step[i] \notin {"check", "done", "end"}
            /\ slots[i] = NilErr

----------------------------------------------------------------------------
\* ChannelMerge.

\* The values of input c that were received from out, in the order received.
MergedOf(c) == SelectSeq(out.merged, LAMBDA v : v[1] = c)

\* All the values sent on the given inputs were received from out.
AllMerged == \A c \in Given : Len(MergedOf(c)) = cs[c].sent

\* C32: the values received from the merged channel are, for each input,
\* the first values sent on it, each once and in the order sent; the merged
\* channel is closed only when every input is closed and all their values
\* were received, and once every input is closed it is closed, with all the
\* values received (none when no value was sent).
C32_Merge ==
    /\ [](\A c \in Inputs :
             /\ MergedOf(c) = [j \in 1 .. Len(MergedOf(c)) |-> <<c, j>>]
             /\ Len(MergedOf(c)) <= cs[c].sent
             /\ output[c].at # "panicked")
    /\ [](out.closed => AllMerged /\ \A c \in Given : cs[c].closed)
    /\ (out.made /\ \A c \in Given : cs[c].closed) ~> (out.closed /\ AllMerged)

\* The merged channel is closed after MaxValues values of each of two inputs
\* were received from it, those of the second input first.
C32_Witness ==
    /\ out.closed /\ Len(out.merged) = 2 * MaxValues
    /\ Given = {1, 2}
    /\ Head(out.merged) = <<2, 1>>

----------------------------------------------------------------------------
\* UnboundedChan.

\* C33: under concurrent Send, Recv and Drain calls the values that Recv
\* and Drain calls have returned, followed by those in the queue, are the
\* values sent, each once and in the order sent; Recv returns the oldest
\* value of the queue, or the zero value and false when it is empty; Drain
\* returns the whole queue and leaves it empty, or nil when it is empty;
\* and no call waits for anything but a mutex that its holder releases.
C33_Queue ==
    /\ [](taken.got \o errChan = [k \in 1 .. taken.sent |-> fnReturn(k, "err")])
    /\ [][\A t \in Callers :
              (ChanStore(t) /\ thr[t].op = "Recv") =>
                  IF errChan = <<>>
                     THEN thr'[t].ret = <<"Recv", NilErr, FALSE>> /\ errChan' = <<>>
                     ELSE /\ thr'[t].ret = <<"Recv", Head(errChan), TRUE>>
                          /\ errChan' = Tail(errChan)]_vars
    /\ [][\A t \in Callers :
              (ChanStore(t) /\ thr[t].op = "Drain") =>
                  /\ errChan' = <<>>
                  /\ thr'[t].ret = <<"Drain", errChan = <<>>, errChan>>]_vars
    /\ [](\A t \in Callers :
             /\ thr[t].at \in {"load", "store", "unlock"} <=> ucm = t
             /\ thr[t].at = "lock" /\ ucm = "free" => ENABLED ChanLock(t))

\* A Recv call returned the first value and a Drain call the two that
\* followed it.
C33_Witness ==
    /\ thr["c2"].ret = <<"Recv", fnReturn(1, "err"), TRUE>>
    /\ thr["c3"].ret = <<"Drain", FALSE, <<fnReturn(2, "err"), fnReturn(3, "err")>>>>
    /\ errChan = <<>>

----------------------------------------------------------------------------
\* The lock of the overflow transfer.

\* The values that have reached ub.channel: those received from it by Recv
\* and TryRecv calls and by the goroutines of Receiver(), and those in it.
Moved == got["consumer"] \o got["consumer2"] \o Delivered("relay")
             \o Delivered("relay2") \o channel

\* C34: a goroutine that is in transferBufferToChannel holds ub.m, the
\* goroutine of Receiver() included, and no value is moved to ub.channel
\* twice.
C34_TransferLocked ==
    /\ \A p \in Goroutines : at[p] \in {"t101", "t105", "t106"} => m = p
    /\ \A v \in 1 .. MaxSends : Occurs(v, Moved) <= 1

----------------------------------------------------------------------------
\* The owner of a gate token.

\* C35: Group.done of a unit takes a token from g.limiter only if the Go or
\* TryGo call of that unit sent one, and a unit whose call sent none (it was
\* admitted with no limit) is not made to wait for one by a later SetLimit.
C35_TokenOwnership ==
    /\ [][\A u \in Units :
              (DoneRelease(u) /\ limiterLen' # limiterLen) => tok[u]]_vars
    /\ [](\A u \in Units :
             (pc[u] = "release" /\ ~tok[u] /\ ~fatal) => ENABLED DoneRelease(u))

----------------------------------------------------------------------------
\* CloseWithOverflow and the goroutines of Receiver().

\* C36: when CloseWithOverflow has closed the Receiver() channels, no
\* goroutine of Receiver() holds a value that it took from ub.channel and
\* has still to send, and none has panicked on such a send.
C36_CloseSafe ==
    \A r \in Relays :
        closed => at[r] # "r62" /\ ~(at[r] = "panicked" /\ held[r] \notin Range(Delivered(r)))

----------------------------------------------------------------------------
\* Calls on a closed Unbounded.

\* C37: once CloseWithOverflow has returned, nothing is added to ub.channel
\* or to ub.buffer, a Send call does not return but panics at its TrySend,
\* and a further CloseWithOverflow call panics and returns nothing.
C37_ClosedFailsLoudly ==
    /\ [][closed =>
              /\ buffer = <<>> /\ buffer' = <<>>
              /\ channel' = channel \/ (channel # <<>> /\ channel' = Tail(channel))
              /\ sent' = sent
              /\ overflow' = overflow]_vars
    /\ [][(closed /\ at["sender"] # "idle") => at'["sender"] # "idle"]_vars
    /\ [][(closed /\ SendTry) => at'["sender"] = "panicked"]_vars
    /\ [][\A c \in Consumers : CloseAgain(c) => at'[c] = "panicked"]_vars
    /\ [](closed => ~ENABLED CloseWithOverflow)

\* A Send call made after CloseWithOverflow has panicked; the value sent
\* before the close is still in ub.channel.
C37_Witness ==
    /\ closed /\ at["sender"] = "panicked"
    /\ sent = 1 /\ channel = <<1>> /\ buffer = <<>>

----------------------------------------------------------------------------
\* The goroutine that WaitOrError starts.

\* C38: the goroutine of a WaitOrError call that has g.wg.Wait() behind it
\* and sends on completed has the call at its select to receive from it: it
\* does not stay at that send after the call has returned.
C38_HelperEnds ==
    \A w \in Waits : helper[w] = "sending" => wpc[w] # "returned"

=============================================================================
